---- MODULE Spec2Model ----
(***************************************************************************)
(* A model of myth's filter engine: the tri-state Outcome protocol, the    *)
(* combinator futures (And, Or, Handle, Then, Recover, RecoverForward,     *)
(* Receive) and the path filters, evaluated on one request.                *)
(*                                                                         *)
(* A filter chain is a tree of records.  Evaluating it is a stack of       *)
(* futures (one frame per combinator future that has been created and not  *)
(* yet completed) plus `ctl`, the hand-over between a future and its       *)
(* child: a pending `execute` call, a `ready` RequestOutcome being         *)
(* returned by a poll, or `await` while a handler function's future runs.  *)
(*                                                                         *)
(* Paths are sequences of bytes.  Every frame carries a history record     *)
(* `hist` (what it was entered with, which children it executed and what   *)
(* they returned); `hist` is never read by an action, only by properties.  *)
(***************************************************************************)
EXTENDS Integers, Sequences, FiniteSets, TLC

VARIABLES request, filter, stack, ctl

vars == <<request, filter, stack, ctl>>

(***************************************************************************)
(* Bounds of the model.                                                    *)
(***************************************************************************)
MaxPathLen == 4

(***************************************************************************)
(* Bytes.                                                                  *)
(***************************************************************************)
\* b'/'
SLASH == 47

\* The bytes of the paths evaluated: '/' and 'a'.
PathBytes == {SLASH, 97}

None == [some |-> FALSE]
Some(x) == [some |-> TRUE, value |-> x]

(***************************************************************************)
(* Forwarding (forward.rs).  AttemptedMethods is a u16 bit set.            *)
(***************************************************************************)
RECURSIVE BitOrN(_, _, _)
BitOrN(a, b, bits) ==
    IF bits = 0 THEN 0
    ELSE (IF (a % 2 = 1) \/ (b % 2 = 1) THEN 1 ELSE 0)
         + 2 * BitOrN(a \div 2, b \div 2, bits - 1)

AttemptedBits == 16

\* A bit-or that keeps only the left operand's methods.
bitor_KeepsLeft(a, b) == BitOrN(a, 0, AttemptedBits)

bitor(a, b) == BitOrN(a, b, AttemptedBits)

AttemptedGET == 1
AttemptedPOST == 2
AttemptedPUT == 4

NotFound == [tag |-> "NotFound"]
MethodNotAllowed(attempted) == [tag |-> "MethodNotAllowed", attempted |-> attempted]

\* A combine in which NotFound on the right wins over the methods attempted.
combine_NotFoundAbsorbs(self, other) ==
    IF self.tag = "NotFound" THEN other
    ELSE IF other.tag = "NotFound" THEN other
    ELSE MethodNotAllowed(bitor(self.attempted, other.attempted))

combine(self, other) ==
    IF self.tag = "NotFound" THEN other
    ELSE IF other.tag = "NotFound" THEN MethodNotAllowed(self.attempted)
    ELSE MethodNotAllowed(bitor(self.attempted, other.attempted))

(***************************************************************************)
(* Outcome and RequestOutcome (outcome.rs).                                *)
(***************************************************************************)
Success(success) == [tag |-> "Success", success |-> success]
Error(error) == [tag |-> "Error", error |-> error]
Forward(input, forwarding) == [tag |-> "Forward", input |-> input, forwarding |-> forwarding]

OutcomeFromResult(result) ==
    IF result.tag = "Ok" THEN Success(result.ok) ELSE Error(result.err)

Ok(v) == [tag |-> "Ok", ok |-> v]
Err(e) == [tag |-> "Err", err |-> e]

(***************************************************************************)
(* Value lists (generics/tuples.rs): a tuple is a sequence of values.      *)
(***************************************************************************)
append_one(self, elem) == Append(self, elem)
remove_one(self) == <<SubSeq(self, 1, Len(self) - 1), self[Len(self)]>>
push_one(self, elem) == <<elem>> \o self
\* A pop_one that takes the element from the back.
pop_one_FromBack(self) == <<SubSeq(self, 1, Len(self) - 1), self[Len(self)]>>

pop_one(self) == <<Tail(self), Head(self)>>

RECURSIVE append(_, _)
append(self, ending) ==
    IF ending = <<>> THEN self
    ELSE LET p == pop_one(ending)
         IN append(append_one(self, p[2]), p[1])

\* remove is directed by the static arity of Ending.
RECURSIVE remove(_, _)
remove(appended, endingArity) ==
    IF endingArity = 0 THEN <<appended, <<>>>>
    ELSE LET r == remove(appended, endingArity - 1)
             b == remove_one(r[1])
         IN <<b[1], push_one(r[2], b[2])>>

(***************************************************************************)
(* Request and RequestState (request.rs).                                  *)
(***************************************************************************)
NewRequestState == [current_path_index |-> 0]

full_path(req) == req.path

current_path(request_state, req) ==
    SubSeq(full_path(req), request_state.current_path_index + 1, Len(full_path(req)))

previous_path(request_state, req) ==
    SubSeq(full_path(req), 1, request_state.current_path_index)

incr_current_path_index(request_state, index) ==
    [request_state EXCEPT !.current_path_index = @ + index]

end_current_path_index(request_state, req) ==
    [request_state EXCEPT !.current_path_index = Len(full_path(req))]

(***************************************************************************)
(* Percent decoding and lossy UTF-8 decoding of a path segment             *)
(* (percent_encoding::percent_decode_str(..).decode_utf8_lossy(), used at  *)
(* path.rs:110).  Strings are sequences of code points; 37 is '%' and       *)
(* 65533 is U+FFFD, the replacement character.                             *)
(***************************************************************************)
HexVal(b) ==
    IF b >= 48 /\ b <= 57 THEN b - 48
    ELSE IF b >= 65 /\ b <= 70 THEN b - 55
    ELSE IF b >= 97 /\ b <= 102 THEN b - 87
    ELSE -1

RECURSIVE percent_decode_str(_)
percent_decode_str(s) ==
    IF s = <<>> THEN <<>>
    ELSE IF s[1] = 37 /\ Len(s) >= 3 /\ HexVal(s[2]) >= 0 /\ HexVal(s[3]) >= 0
         THEN <<16 * HexVal(s[2]) + HexVal(s[3])>> \o percent_decode_str(SubSeq(s, 4, Len(s)))
         ELSE <<s[1]>> \o percent_decode_str(Tail(s))

Utf8Width(lead) ==
    IF lead < 128 THEN 1
    ELSE IF lead >= 194 /\ lead <= 223 THEN 2
    ELSE IF lead >= 224 /\ lead <= 239 THEN 3
    ELSE IF lead >= 240 /\ lead <= 244 THEN 4
    ELSE 0

Utf8SecondOk(lead, b) ==
    /\ b >= (IF lead = 224 THEN 160 ELSE IF lead = 240 THEN 144 ELSE 128)
    /\ b <= (IF lead = 237 THEN 159 ELSE IF lead = 244 THEN 143 ELSE 191)

Utf8Cont(b) == b >= 128 /\ b <= 191

RECURSIVE decode_utf8_lossy(_)
decode_utf8_lossy(b) ==
    IF b = <<>> THEN <<>>
    ELSE LET w == Utf8Width(b[1])
             rest(n) == decode_utf8_lossy(SubSeq(b, n + 1, Len(b)))
         IN IF w = 1 THEN <<b[1]>> \o rest(1)
            ELSE IF w = 0 \/ Len(b) < 2 \/ ~Utf8SecondOk(b[1], b[2])
                 THEN <<65533>> \o rest(1)
            ELSE IF w = 2 THEN <<(b[1] - 192) * 64 + (b[2] - 128)>> \o rest(2)
            ELSE IF Len(b) < 3 \/ ~Utf8Cont(b[3])
                 THEN <<65533>> \o rest(2)
            ELSE IF w = 3
                 THEN <<(b[1] - 224) * 4096 + (b[2] - 128) * 64 + (b[3] - 128)>> \o rest(3)
            ELSE IF Len(b) < 4 \/ ~Utf8Cont(b[4])
                 THEN <<65533>> \o rest(3)
            ELSE <<(b[1] - 240) * 262144 + (b[2] - 128) * 4096
                   + (b[3] - 128) * 64 + (b[4] - 128)>> \o rest(4)

\* percent_decode_str(..).decode_utf8(), as sanitize_path uses it: the bytes
\* are refused when they are not UTF-8.
RECURSIVE Utf8Valid(_)
Utf8Valid(b) ==
    IF b = <<>> THEN TRUE
    ELSE LET w == Utf8Width(b[1])
         IN /\ w >= 1
            /\ Len(b) >= w
            /\ w >= 2 => Utf8SecondOk(b[1], b[2])
            /\ w >= 3 => Utf8Cont(b[3])
            /\ w >= 4 => Utf8Cont(b[4])
            /\ Utf8Valid(SubSeq(b, w + 1, Len(b)))

decode_utf8(b) == IF Utf8Valid(b) THEN Some(decode_utf8_lossy(b)) ELSE None

(***************************************************************************)
(* Path segments (path.rs).                                                *)
(***************************************************************************)
Str(s) == [str |-> s]

\* str::find('/').unwrap_or(len): the 0-based offset of the first slash.
FindSlash(s) ==
    IF \E i \in 1..Len(s) : s[i] = SLASH
    THEN (CHOOSE i \in 1..Len(s) : s[i] = SLASH /\ \A j \in 1..(i - 1) : s[j] # SLASH) - 1
    ELSE Len(s)

\* Mutant: the slash in front of a segment is not counted in its length.
segment_SlashNotCounted(req, request_state) ==
    LET cp == current_path(request_state, req)
    IN IF cp = <<>> \/ cp = <<SLASH>> THEN None
       ELSE IF cp[1] = SLASH
            THEN LET rest == Tail(cp)
                     index == FindSlash(rest)
                 IN Some([segment |-> SubSeq(rest, 1, index), len |-> index])
            ELSE LET index == FindSlash(cp)
                 IN Some([segment |-> SubSeq(cp, 1, index), len |-> index])

segment(req, request_state) ==
    LET cp == current_path(request_state, req)
    IN IF cp = <<>> \/ cp = <<SLASH>> THEN None
       ELSE IF cp[1] = SLASH
            THEN LET rest == Tail(cp)
                     index == FindSlash(rest)
                 IN Some([segment |-> SubSeq(rest, 1, index), len |-> index + 1])
            ELSE LET index == FindSlash(cp)
                 IN Some([segment |-> SubSeq(cp, 1, index), len |-> index])

(***************************************************************************)
(* sanitize_path and tail_path (path.rs).  46 is '.', 42 '*', 58 ':',      *)
(* 62 '>', 60 '<', 92 the backslash.  A PathBuf is the sequence of the     *)
(* segments pushed onto it.                                                *)
(***************************************************************************)
PathBuf(components) == [path |-> components]

\* str::split('/')
RECURSIVE split_slash(_)
split_slash(s) ==
    LET i == FindSlash(s)
    IN IF i = Len(s) THEN <<s>>
       ELSE <<SubSeq(s, 1, i)>> \o split_slash(SubSeq(s, i + 2, Len(s)))

starts_with(seg, c) == seg # <<>> /\ seg[1] = c
ends_with(seg, c) == seg # <<>> /\ seg[Len(seg)] = c
contains(seg, c) == \E i \in 1..Len(seg) : seg[i] = c

reject_segment(seg) ==
    \/ starts_with(seg, 46)
    \/ starts_with(seg, 42)
    \/ ends_with(seg, 58)
    \/ ends_with(seg, 62)
    \/ ends_with(seg, 60)
    \/ contains(seg, 92)
    \/ contains(seg, 0)

\* The loop over decoded.split('/').
RECURSIVE push_segments(_, _)
push_segments(segs, path) ==
    IF segs = <<>> THEN Some(path)
    ELSE IF reject_segment(Head(segs)) THEN None
    ELSE push_segments(Tail(segs),
                       IF Head(segs) # <<>> THEN Append(path, Head(segs)) ELSE path)

\* Mutant: the segments are checked before percent-decoding, and decoded
\* one by one afterwards.
sanitize_path_ChecksRaw(string) ==
    IF ~Utf8Valid(percent_decode_str(string)) THEN None
    ELSE LET pushed == push_segments(split_slash(string), <<>>)
         IN IF ~pushed.some THEN None
            ELSE Some([i \in 1..Len(pushed.value) |->
                          decode_utf8_lossy(percent_decode_str(pushed.value[i]))])

sanitize_path(string) ==
    LET decoded == decode_utf8(percent_decode_str(string))
    IN IF ~decoded.some THEN None
       ELSE push_segments(split_slash(decoded.value), <<>>)

tail_path(req, request_state) ==
    LET sanitized == sanitize_path(current_path(request_state, req))
    IN IF sanitized.some
       THEN [request_state |-> end_current_path_index(request_state, req),
             outcome |-> Success(<<PathBuf(sanitized.value)>>)]
       ELSE [request_state |-> request_state, outcome |-> Forward(<<>>, NotFound)]

\* The closures that literal (path.rs:90-96) and param_str (path.rs:53)
\* hand to decoded_segment, as data: the closure and what it captured.
literal_func(value) == [closure |-> "literal", value |-> value]
param_str_func == [closure |-> "param_str"]

call_func(func, seg) ==
    IF func.closure = "literal"
    THEN IF func.value = seg THEN Some(<<>>) ELSE None
    ELSE Some(<<Str(seg)>>)

\* Mutant: the cursor moves past the segment whatever func answers.
decoded_segment_AlwaysAdvances(req, request_state, func) ==
    LET seg == segment(req, request_state)
        forward == [request_state |-> request_state, outcome |-> Forward(<<>>, NotFound)]
    IN IF ~seg.some THEN forward
       ELSE LET decoded == decode_utf8_lossy(percent_decode_str(seg.value.segment))
                success == call_func(func, decoded)
                advanced == incr_current_path_index(request_state, seg.value.len)
            IN IF ~success.some
               THEN [request_state |-> advanced, outcome |-> Forward(<<>>, NotFound)]
               ELSE [request_state |-> advanced, outcome |-> Success(success.value)]

\* Returns the RequestState as left by the call together with the Outcome.
decoded_segment(req, request_state, func) ==
    LET seg == segment(req, request_state)
        forward == [request_state |-> request_state, outcome |-> Forward(<<>>, NotFound)]
    IN IF ~seg.some THEN forward
       ELSE LET decoded == decode_utf8_lossy(percent_decode_str(seg.value.segment))
                success == call_func(func, decoded)
            IN IF ~success.some THEN forward
               ELSE [request_state |-> incr_current_path_index(request_state, seg.value.len),
                     outcome |-> Success(success.value)]

literal(value, req, request_state) ==
    decoded_segment(req, request_state, literal_func(value))

param_str(req, request_state) ==
    decoded_segment(req, request_state, param_str_func)

Redirect(location) == [type |-> "Redirect", location |-> location]

\* Only the status and the Location header of a Response are modelled.
PERMANENT_REDIRECT == 308
INTERNAL_SERVER_ERROR == 500

default_response(status) == [status |-> status, location |-> None]

\* FilterError::into_response: Redirect's own, and the default of errors.rs.
error_into_response(error) ==
    IF error.type = "Redirect"
    THEN [default_response(PERMANENT_REDIRECT) EXCEPT !.location = Some(error.location)]
    ELSE default_response(INTERNAL_SERVER_ERROR)

\* Mutant: a trailing slash is a plain mismatch.
end_SlashForwards(req, request_state) ==
    [request_state |-> request_state,
     outcome |->
        IF full_path(req) = <<>> \/ full_path(req) = <<SLASH>> THEN Success(<<>>)
        ELSE IF current_path(request_state, req) = <<>> THEN Success(<<>>)
             ELSE Forward(<<>>, NotFound)]

\* Mutant: the root path is not set apart, so "/" redirects to "".
end_RootRedirects(req, request_state) ==
    [request_state |-> request_state,
     outcome |->
        LET cp == current_path(request_state, req)
        IN IF cp = <<>> THEN Success(<<>>)
           ELSE IF cp = <<SLASH>>
                THEN Error(Redirect(previous_path(request_state, req)))
                ELSE Forward(<<>>, NotFound)]

end(req, request_state) ==
    [request_state |-> request_state,
     outcome |->
        IF full_path(req) = <<>> \/ full_path(req) = <<SLASH>> THEN Success(<<>>)
        ELSE LET cp == current_path(request_state, req)
             IN IF cp = <<>> THEN Success(<<>>)
                ELSE IF cp = <<SLASH>>
                     THEN Error(Redirect(previous_path(request_state, req)))
                     ELSE Forward(<<>>, NotFound)]

\* Mutant: tail hands out the rest of the path and leaves the cursor.
tail_KeepsCursor(req, request_state) ==
    [request_state |-> request_state,
     outcome |-> Success(<<Str(current_path(request_state, req))>>)]

tail(req, request_state) ==
    [request_state |-> end_current_path_index(request_state, req),
     outcome |-> Success(<<Str(current_path(request_state, req))>>)]

(***************************************************************************)
(* Method filters (method.rs) and basic filters (basic/mod.rs).            *)
(***************************************************************************)
AttemptedOf(m) ==
    IF m = "GET" THEN AttemptedGET ELSE IF m = "POST" THEN AttemptedPOST ELSE AttemptedPUT

\* Mutant: a method filter forwards as a path mismatch does.
method_filter_NotFound(m, req, request_state) ==
    [request_state |-> request_state,
     outcome |-> IF req.method = m THEN Success(<<>>) ELSE Forward(<<>>, NotFound)]

method_filter(m, req, request_state) ==
    [request_state |-> request_state,
     outcome |-> IF req.method = m THEN Success(<<>>)
                 ELSE Forward(<<>>, MethodNotAllowed(AttemptedOf(m)))]

any(req, request_state) ==
    [request_state |-> request_state, outcome |-> Success(<<>>)]

\* The closure a ReadyFilter holds, by the constructor that made it.
ReadyOps == {"Literal", "End", "Method", "Any", "TailPath"}

ready_func(f, req, request_state) ==
    CASE f.op = "Literal" -> literal(f.value, req, request_state)
      [] f.op = "End" -> end(req, request_state)
      [] f.op = "Method" -> method_filter(f.method, req, request_state)
      [] f.op = "Any" -> any(req, request_state)
      [] f.op = "TailPath" -> tail_path(req, request_state)

(***************************************************************************)
(* Filter chains: the values built by the constructors of filter/mod.rs.   *)
(* `arity` fields stand for what the Rust types fix statically: the arity  *)
(* of Then's and Receive's R.                                              *)
(***************************************************************************)
Literal(value) == [op |-> "Literal", value |-> value]
End == [op |-> "End"]
AnyF == [op |-> "Any"]
ParamStr == [op |-> "ParamStr"]
TailF == [op |-> "Tail"]
TailPath == [op |-> "TailPath"]
Method(m) == [op |-> "Method", method |-> m]
And(a, b) == [op |-> "And", first |-> a, second |-> b]
Or(a, b) == [op |-> "Or", first |-> a, second |-> b]
Handle(t, f) == [op |-> "Handle", filter |-> t, func |-> f]
Then(a, b, r) == [op |-> "Then", first |-> a, second |-> b, arity |-> r]
Recover(t, f, e) == [op |-> "Recover", filter |-> t, func |-> f, E |-> e]
RecoverForward(t, f, e) == [op |-> "RecoverForward", filter |-> t, func |-> f, E |-> e]
Receive(t, r) == [op |-> "Receive", filter |-> t, arity |-> r]

\* FilterBase::Success and FilterBase::Input, as arities.
RECURSIVE SuccessArity(_)
SuccessArity(f) ==
    CASE f.op \in {"Literal", "End", "Any", "Method"} -> 0
      [] f.op \in {"ParamStr", "Tail", "TailPath", "Handle", "TakeBody", "HeaderValue"} -> 1
      [] f.op = "And" -> SuccessArity(f.first) + SuccessArity(f.second)
      [] f.op = "Or" -> SuccessArity(f.first)
      [] f.op = "Then" -> SuccessArity(f.second)
      [] f.op \in {"Recover", "RecoverForward"} -> SuccessArity(f.filter)
      [] f.op = "Receive" -> f.arity + SuccessArity(f.filter)

RECURSIVE InputArity(_)
InputArity(f) ==
    CASE f.op \in {"Literal", "End", "Any", "Method", "ParamStr", "Tail", "TailPath",
                   "TakeBody", "HeaderValue"} -> 0
      [] f.op = "And" -> InputArity(f.second)
      [] f.op = "Or" -> InputArity(f.first)
      [] f.op = "Then" -> f.arity
      [] f.op \in {"Handle", "Recover", "RecoverForward", "Untuple"} -> InputArity(f.filter)
      [] f.op = "Receive" -> f.arity + InputArity(f.filter)

(***************************************************************************)
(* The evaluation machine.                                                 *)
(***************************************************************************)
Execute(f, request_state, input) ==
    [kind |-> "execute", filter |-> f, request_state |-> request_state, input |-> input]

Ready(request_state, outcome, hist) ==
    [kind |-> "ready", request_state |-> request_state, outcome |-> outcome, by |-> hist]

Await == [kind |-> "await"]

Top == stack[Len(stack)]
Pop == SubSeq(stack, 1, Len(stack) - 1)

\* History: what a future was created with, the children it ran, their outputs.
NewHist(f, request_state, input) ==
    [filter |-> f, request_state |-> request_state, input |-> input,
     calls |-> <<>>, results |-> <<>>]

Called(frame, who, request_state, input) ==
    [frame EXCEPT !.hist.calls =
        Append(@, [who |-> who, request_state |-> request_state, input |-> input])]

Returned(frame, out) ==
    [frame EXCEPT !.hist.results = Append(@, out)]

PollingChild(op, state) ==
    /\ ctl.kind = "ready"
    /\ Len(stack) > 0
    /\ Top.op = op
    /\ Top.state = state

ChildOut == [request_state |-> ctl.request_state, outcome |-> ctl.outcome]

Executing(ops) ==
    /\ ctl.kind = "execute"
    /\ ctl.filter.op \in ops

(***************************************************************************)
(* Leaf filters: ReadyFilter (filter/ready.rs), ParamStr and Tail          *)
(* (path.rs).  Their futures are std::future::Ready.                       *)
(***************************************************************************)
LeafReady(out) ==
    /\ ctl' = Ready(out.request_state, out.outcome,
                    NewHist(ctl.filter, ctl.request_state, ctl.input))
    /\ UNCHANGED <<request, filter, stack>>

ReadyFilterExecute ==
    /\ Executing(ReadyOps)
    /\ LeafReady(ready_func(ctl.filter, request, ctl.request_state))

ParamStrExecute ==
    /\ Executing({"ParamStr"})
    /\ LeafReady(param_str(request, ctl.request_state))

TailExecute ==
    /\ Executing({"Tail"})
    /\ LeafReady(tail(request, ctl.request_state))

(***************************************************************************)
(* Or (filter/or.rs).                                                      *)
(***************************************************************************)
OrEntryPathIndex(request_state) == request_state.current_path_index

OrExecute ==
    /\ Executing({"Or"})
    /\ LET path_index == OrEntryPathIndex(ctl.request_state)
           frame == [op |-> "Or", state |-> "First", second |-> ctl.filter.second,
                     path_index |-> path_index, first_forwarding |-> None,
                     hist |-> NewHist(ctl.filter, ctl.request_state, ctl.input)]
       IN /\ stack' = Append(stack, Called(frame, "first", ctl.request_state, ctl.input))
          /\ ctl' = Execute(ctl.filter.first, ctl.request_state, ctl.input)
    /\ UNCHANGED <<request, filter>>

\* Mutant: the cursor first left behind leaks into second.
OrSecondState_NoReset(request_state, path_index) == request_state

\* OrFuture::poll, First phase: the state handed to second.
\* Mutant: second gets the entry cursor but nothing else of what first returned.
OrSecondState_KeepsNothing(request_state, path_index) ==
    [current_path_index |-> path_index, body |-> [tag |-> "Error"], on_upgrade |-> None]

OrSecondState(request_state, path_index) ==
    [request_state EXCEPT !.current_path_index = path_index]

\* Mutant: an Error of first is downgraded to a soft failure.
OrFirstOutcome_ErrorForwards(request_state, outcome) ==
    [request_state |-> request_state,
     outcome |-> IF outcome.tag = "Error" THEN Forward(<<>>, NotFound) ELSE outcome]

\* OrFuture::poll, First phase: Success and Error are returned as they are.
OrFirstOutcome(request_state, outcome) ==
    [request_state |-> request_state, outcome |-> outcome]

OrPollFirst ==
    /\ PollingChild("Or", "First")
    /\ LET frame == Returned(Top, ChildOut)
       IN IF ctl.outcome.tag \in {"Success", "Error"}
          THEN LET out == OrFirstOutcome(ctl.request_state, ctl.outcome)
               IN /\ stack' = Pop
                  /\ ctl' = Ready(out.request_state, out.outcome, frame.hist)
          ELSE LET request_state == OrSecondState(ctl.request_state, frame.path_index)
                   next == [frame EXCEPT !.state = "Second",
                                         !.first_forwarding = Some(ctl.outcome.forwarding)]
               IN /\ stack' = Append(Pop, Called(next, "second", request_state, ctl.outcome.input))
                  /\ ctl' = Execute(frame.second, request_state, ctl.outcome.input)
    /\ UNCHANGED <<request, filter>>

\* Mutant: the cursor second left behind leaks out of a forwarding Or.
OrSecondOutcome_NoReset(request_state, outcome, path_index, first_forwarding) ==
    IF outcome.tag \in {"Success", "Error"}
    THEN [request_state |-> request_state, outcome |-> outcome]
    ELSE [request_state |-> request_state,
          outcome |-> Forward(outcome.input,
                              combine(first_forwarding.value, outcome.forwarding))]

\* OrFuture::poll, Second phase: the RequestOutcome returned.
OrSecondOutcome(request_state, outcome, path_index, first_forwarding) ==
    IF outcome.tag \in {"Success", "Error"}
    THEN [request_state |-> request_state, outcome |-> outcome]
    ELSE [request_state |-> [request_state EXCEPT !.current_path_index = path_index],
          outcome |-> Forward(outcome.input,
                              combine(first_forwarding.value, outcome.forwarding))]

OrPollSecond ==
    /\ PollingChild("Or", "Second")
    /\ LET frame == Returned(Top, ChildOut)
           out == OrSecondOutcome(ctl.request_state, ctl.outcome,
                                  frame.path_index, frame.first_forwarding)
       IN /\ stack' = Pop
          /\ ctl' = Ready(out.request_state, out.outcome, frame.hist)
    /\ UNCHANGED <<request, filter>>

(***************************************************************************)
(* And (filter/and.rs).                                                    *)
(***************************************************************************)
AndExecute ==
    /\ Executing({"And"})
    /\ LET frame == [op |-> "And", state |-> "First", second |-> ctl.filter.second,
                     input |-> Some(ctl.input), first_success |-> None,
                     hist |-> NewHist(ctl.filter, ctl.request_state, ctl.input)]
       IN /\ stack' = Append(stack, Called(frame, "first", ctl.request_state, <<>>))
          /\ ctl' = Execute(ctl.filter.first, ctl.request_state, <<>>)
    /\ UNCHANGED <<request, filter>>

\* Mutant: the reason first gave is lost.
AndFirstForward_DropsReason(input, outcome) == Forward(input, NotFound)

\* AndFuture::poll, First phase: first forwarded.
AndFirstForward(input, outcome) == Forward(input, outcome.forwarding)

\* AndFuture::poll, First phase: the input second is executed with.
AndSecondInput(input, success) == input

\* An And that, when first has returned, waits for a wake-up nobody sends.
AndPollFirst_Waits ==
    /\ PollingChild("And", "First")
    /\ UNCHANGED vars

AndPollFirst ==
    /\ PollingChild("And", "First")
    /\ LET frame == Returned(Top, ChildOut)
           input == frame.input.value
           taken == [frame EXCEPT !.input = None]
       IN CASE ctl.outcome.tag = "Success" ->
                 LET next == [taken EXCEPT !.state = "Second",
                                           !.first_success = Some(ctl.outcome.success)]
                     arg == AndSecondInput(input, ctl.outcome.success)
                 IN /\ stack' = Append(Pop, Called(next, "second", ctl.request_state, arg))
                    /\ ctl' = Execute(frame.second, ctl.request_state, arg)
            [] ctl.outcome.tag = "Error" ->
                 /\ stack' = Pop
                 /\ ctl' = Ready(ctl.request_state, Error(ctl.outcome.error), frame.hist)
            [] ctl.outcome.tag = "Forward" ->
                 /\ stack' = Pop
                 /\ ctl' = Ready(ctl.request_state,
                                 AndFirstForward(input, ctl.outcome), frame.hist)
    /\ UNCHANGED <<request, filter>>

\* Mutant: second's values are put before first's.
AndSecondOutcome_Swapped(outcome, first_success) ==
    IF outcome.tag = "Success"
    THEN Success(append(outcome.success, first_success.value))
    ELSE outcome

\* AndFuture::poll, Second phase: RequestOutcome::map over second's outcome.
AndSecondOutcome(outcome, first_success) ==
    IF outcome.tag = "Success"
    THEN Success(append(first_success.value, outcome.success))
    ELSE outcome

\* Mutant: a Forward of second leaves And with the cursor And was entered with.
AndPollSecond_ForwardRewinds ==
    /\ PollingChild("And", "Second")
    /\ LET frame == Returned(Top, ChildOut)
       IN /\ stack' = Pop
          /\ ctl' = Ready(IF ctl.outcome.tag = "Forward"
                          THEN [ctl.request_state EXCEPT !.current_path_index =
                                    frame.hist.request_state.current_path_index]
                          ELSE ctl.request_state,
                          AndSecondOutcome(ctl.outcome, frame.first_success), frame.hist)
    /\ UNCHANGED <<request, filter>>

AndPollSecond ==
    /\ PollingChild("And", "Second")
    /\ LET frame == Returned(Top, ChildOut)
       IN /\ stack' = Pop
          /\ ctl' = Ready(ctl.request_state,
                          AndSecondOutcome(ctl.outcome, frame.first_success), frame.hist)
    /\ UNCHANGED <<request, filter>>

(***************************************************************************)
(* The body buffer (body.rs): a queue of byte chunks and a running total.  *)
(* A chunk is a sequence of bytes.  Calls either return or panic.          *)
(***************************************************************************)
BytesBuf(bytes, len) == [bytes |-> bytes, len |-> len]

Completed(self, value) == [tag |-> "Returned", self |-> self, value |-> value]
Panicked(message) == [tag |-> "Panicked", message |-> message]

\* Buf::remaining
remaining(self) == self.len

\* Buf::chunk: the front chunk, or the empty slice.
chunk(self) == IF self.bytes = <<>> THEN <<>> ELSE Head(self.bytes)

\* The `while let Some(front)` loop of advance.
RECURSIVE advance_while(_, _)
advance_while(bytes, cnt) ==
    IF bytes = <<>> THEN bytes
    ELSE LET front == Head(bytes)
         IN IF cnt < Len(front)
            THEN <<SubSeq(front, cnt + 1, Len(front))>> \o Tail(bytes)
            ELSE advance_while(Tail(bytes), cnt - Len(front))

\* An advance that leaves the running total alone.
advance_KeepsLen(self, cnt) ==
    IF cnt > self.len THEN Panicked("cannot advance past end of buffer")
    ELSE Completed(BytesBuf(advance_while(self.bytes, cnt), self.len), <<>>)

\* Buf::advance
advance(self, cnt) ==
    IF cnt > self.len THEN Panicked("cannot advance past end of buffer")
    ELSE Completed(BytesBuf(advance_while(self.bytes, cnt), self.len - cnt), <<>>)

\* The loop of Buf::copy_to_slice: copy from the front chunk, advance by
\* what was copied, until dst is full.  The value is dst as filled.
RECURSIVE copy_loop(_, _, _)
copy_loop(self, dst, off) ==
    IF off >= Len(dst) THEN Completed(self, dst)
    ELSE LET src == chunk(self)
             cnt == IF Len(src) < Len(dst) - off THEN Len(src) ELSE Len(dst) - off
             copied == [i \in 1..Len(dst) |->
                            IF i > off /\ i <= off + cnt THEN src[i - off] ELSE dst[i]]
             advanced == advance(self, cnt)
         IN IF advanced.tag = "Panicked" THEN advanced
            ELSE IF cnt = 0 /\ advanced.self = self THEN Panicked("no progress")
            ELSE copy_loop(advanced.self, copied, off + cnt)

copy_to_slice(self, dst) ==
    IF remaining(self) < Len(dst) THEN Panicked("buffer too short")
    ELSE copy_loop(self, dst, 0)

\* A read that does not shorten the caller's buffer to what remains.
read_Untruncated(self, buf) ==
    LET copied == copy_to_slice(self, buf)
    IN IF copied.tag = "Panicked" THEN copied
       ELSE Completed(copied.self, [n |-> Len(buf), buf |-> copied.value])

\* Read::read: the value is Ok(n) and the caller's buffer afterwards.
read(self, buf) ==
    LET n == IF remaining(self) < Len(buf) THEN remaining(self) ELSE Len(buf)
        copied == copy_to_slice(self, SubSeq(buf, 1, n))
    IN IF copied.tag = "Panicked" THEN copied
       ELSE Completed(copied.self,
                      [n |-> n, buf |-> copied.value \o SubSeq(buf, n + 1, Len(buf))])

(***************************************************************************)
(* Handler and recovery functions (generics/fns.rs, AsyncTryFn): a         *)
(* function is known by the set of Results its future may resolve to.      *)
(***************************************************************************)
CallFunc(func, args) == [func |-> func, args |-> args]

(***************************************************************************)
(* T::from_str for a signed integer type of the given width, as param's    *)
(* handler calls it (path.rs:75-76): an optional sign, then decimal digits *)
(* accumulated with checked arithmetic.  48..57 are '0'..'9', 43 is '+',   *)
(* 45 is '-'.                                                              *)
(***************************************************************************)
IntMax(bits) == (2 ^ (bits - 2) - 1) * 2 + 1
IntMin(bits) == (-IntMax(bits)) - 1

ForwardParam == [type |-> "ForwardParam", data |-> "from_str"]

IntVal(n) == [int |-> n]

RECURSIVE parse_digits(_, _, _, _)
parse_digits(digits, result, is_positive, bits) ==
    IF digits = <<>> THEN Ok(IntVal(result))
    ELSE LET c == Head(digits)
             x == c - 48
             m == IntMax(bits) - x
         IN IF c \notin 48..57 THEN Err(ForwardParam)
            ELSE IF is_positive
                 THEN \* checked_mul(10), checked_add(x)
                      IF result > m \div 10 THEN Err(ForwardParam)
                      ELSE parse_digits(Tail(digits), result * 10 + x, is_positive, bits)
                 ELSE \* checked_mul(10), checked_sub(x)
                      IF (-result) > (m \div 10) + (IF m % 10 = 9 THEN 1 ELSE 0)
                      THEN Err(ForwardParam)
                      ELSE parse_digits(Tail(digits), result * 10 - x, is_positive, bits)

\* The leading decimal digits of a string.
RECURSIVE DigitPrefix(_)
DigitPrefix(src) ==
    IF src = <<>> \/ Head(src) \notin 48..57 THEN <<>>
    ELSE <<Head(src)>> \o DigitPrefix(Tail(src))

\* Mutant: parsing stops at the first character that is not a digit, as
\* atoi does, instead of refusing the string.
from_str_StopsAtGarbage(bits, src) ==
    IF DigitPrefix(src) = <<>> THEN Err(ForwardParam)
    ELSE parse_digits(DigitPrefix(src), 0, TRUE, bits)

from_str(bits, src) ==
    IF src = <<>> THEN Err(ForwardParam)
    ELSE IF src[1] \in {43, 45} /\ Len(src) = 1 THEN Err(ForwardParam)
    ELSE IF src[1] = 43 THEN parse_digits(Tail(src), 0, TRUE, bits)
    ELSE IF src[1] = 45 THEN parse_digits(Tail(src), 0, FALSE, bits)
    ELSE parse_digits(src, 0, TRUE, bits)

(***************************************************************************)
(* Headers (header.rs) and the body of a request (request.rs).  A request  *)
(* that carries them has a `headers` field, from header names to optional  *)
(* values, and its RequestState a `body` field.                            *)
(***************************************************************************)
\* Request::header
header(req, name) == req.headers[name]

\* hyper::Body as what is left of it: the answers poll_data will give, in
\* order, then None for ever.
Data(buf) == [tag |-> "Data", buf |-> buf]
StreamErr == [tag |-> "Err"]
StreamPending == [tag |-> "Pending"]

BodyPending(stream, bytes, len) ==
    [tag |-> "Pending", stream |-> stream, bytes |-> bytes, len |-> len]
BodyFinished(bytes, len) == [tag |-> "Finished", bytes |-> bytes, len |-> len]
BodyError == [tag |-> "Error"]

\* RequestState::new
RequestStateNew(body) ==
    [body |-> BodyPending(body, <<>>, 0), current_path_index |-> 0]

\* body::Error
BodyErr(inner) == [type |-> "body::Error", data |-> [inner |-> inner]]

PollReady(request_state, result) ==
    [request_state |-> request_state, ready |-> TRUE, result |-> result]
PollPending(request_state) == [request_state |-> request_state, ready |-> FALSE]

RECURSIVE poll_body(_)

\* Mutant: every chunk the stream gives is stored, the empty ones too.
poll_body_StoresEmpty(request_state) ==
    LET body == request_state.body
    IN CASE body.tag = "Pending" ->
              IF body.stream = <<>>
              THEN poll_body([request_state EXCEPT
                                !.body = BodyFinished(body.bytes, body.len)])
              ELSE LET item == Head(body.stream)
                       stream == Tail(body.stream)
                   IN (CASE item.tag = "Data" ->
                             poll_body([request_state EXCEPT !.body =
                                     BodyPending(stream, Append(body.bytes, item.buf),
                                                 body.len + Len(item.buf))])
                         [] item.tag = "Err" ->
                             PollReady([request_state EXCEPT !.body = BodyError],
                                       Err(BodyErr(Some("hyper"))))
                         [] item.tag = "Pending" ->
                             PollPending([request_state EXCEPT !.body =
                                     BodyPending(stream, body.bytes, body.len)]))
         [] body.tag = "Finished" ->
              PollReady(request_state, Ok(<<body.bytes, body.len>>))
         [] body.tag = "Error" ->
              PollReady(request_state, Err(BodyErr(None)))

\* RequestState::poll_body
poll_body(request_state) ==
    LET body == request_state.body
    IN CASE body.tag = "Pending" ->
              IF body.stream = <<>>
              THEN poll_body([request_state EXCEPT
                                !.body = BodyFinished(body.bytes, body.len)])
              ELSE LET item == Head(body.stream)
                       stream == Tail(body.stream)
                   IN (CASE item.tag = "Data" ->
                             IF item.buf # <<>>
                             THEN poll_body([request_state EXCEPT !.body =
                                     BodyPending(stream, Append(body.bytes, item.buf),
                                                 body.len + Len(item.buf))])
                             ELSE poll_body([request_state EXCEPT !.body =
                                     BodyPending(stream, body.bytes, body.len)])
                         [] item.tag = "Err" ->
                             PollReady([request_state EXCEPT !.body = BodyError],
                                       Err(BodyErr(Some("hyper"))))
                         [] item.tag = "Pending" ->
                             PollPending([request_state EXCEPT !.body =
                                     BodyPending(stream, body.bytes, body.len)]))
         [] body.tag = "Finished" ->
              PollReady(request_state, Ok(<<body.bytes, body.len>>))
         [] body.tag = "Error" ->
              PollReady(request_state, Err(BodyErr(None)))

\* TakeBodyFuture::poll: the outcome made of poll_body's result.
take_body(result) ==
    IF result.tag = "Ok"
    THEN Success(<<BytesBuf(result.ok[1], result.ok[2])>>)
    ELSE Error(result.err)

(***************************************************************************)
(* content_length_limit's handler (body.rs).  A header value is a sequence *)
(* of bytes; hyper has refused a Content-Length that is not a number.      *)
(***************************************************************************)
\* HeaderValue::to_str: visible ASCII only.
to_str(value) ==
    IF \A i \in 1..Len(value) : value[i] \in 32..126 \/ value[i] = 9
    THEN Ok(value) ELSE Err("ToStrError")

\* str::parse::<usize>, up to the integers of the model.
parse_usize(src) ==
    IF src = <<>> THEN Err("ParseIntError")
    ELSE IF src[1] = 43
         THEN IF Len(src) = 1 THEN Err("ParseIntError")
              ELSE parse_digits(Tail(src), 0, TRUE, 32)
         ELSE parse_digits(src, 0, TRUE, 32)

ContentLengthError(length) == [type |-> "ContentLengthError", data |-> [length |-> length]]

\* A handler that also refuses a declared length equal to the limit.
content_length_handler_Strict(option, limit) ==
    IF option.some
    THEN LET str == to_str(option.value)
             length == IF str.tag = "Ok" THEN parse_usize(str.ok) ELSE str
         IN IF length.tag # "Ok"
            THEN Panicked("content-Length should have been checked by Hyper")
            ELSE IF length.ok.int < limit THEN Ok(<<>>)
                 ELSE Err(ContentLengthError(length.ok.int))
    ELSE Ok(<<>>)

\* content_length_limit::handler
content_length_handler(option, limit) ==
    IF option.some
    THEN LET str == to_str(option.value)
             length == IF str.tag = "Ok" THEN parse_usize(str.ok) ELSE str
         IN IF length.tag # "Ok"
            THEN Panicked("content-Length should have been checked by Hyper")
            ELSE IF length.ok.int <= limit THEN Ok(<<>>)
                 ELSE Err(ContentLengthError(length.ok.int))
    ELSE Ok(<<>>)

\* A caller's buffer of the given size, filled with zeros.
Buffer(size) == [i \in 1..size |-> 0]

(***************************************************************************)
(* The body codecs (json.rs, form/urlencoded.rs).  A Content-Type value is *)
(* a string; a Mime is its type and subtype.                               *)
(***************************************************************************)
Mime(type, subtype) == [type |-> type, subtype |-> subtype]

\* value.to_str().ok() and Mime::from_str(str).ok(), on the values drawn.
mime_from_str(value) ==
    CASE value = "application/json" -> Some(Mime("application", "json"))
      [] value = "application/json; charset=utf-8" -> Some(Mime("application", "json"))
      [] value = "application/x-www-form-urlencoded" ->
            Some(Mime("application", "x-www-form-urlencoded"))
      [] value = "text/json" -> Some(Mime("text", "json"))
      [] OTHER -> None

\* content_type::handler (header.rs)
content_type_handler(value) ==
    Ok(<<IF value.some THEN mime_from_str(value.value) ELSE None, value>>)

CodecSubtype(codec) == IF codec = "json" THEN "json" ELSE "x-www-form-urlencoded"
CodecErrorType(codec) == IF codec = "json" THEN "json::Error" ELSE "urlencoded::Error"

\* json::Error and urlencoded::Error
CodecError(codec, variant, inner) ==
    [type |-> CodecErrorType(codec), data |-> [variant |-> variant, inner |-> inner]]

\* request::handler of json.rs and of urlencoded.rs
codec_handler(codec, option, value) ==
    IF option.some /\ option.value.type = "application"
                   /\ option.value.subtype = CodecSubtype(codec)
    THEN Ok(<<>>)
    ELSE Err(IF value.some THEN CodecError(codec, "WrongContentType", value.value)
             ELSE CodecError(codec, "NoContentType", <<>>))

\* The closure given to recover: Err(Error::Reading(error).into())
reading(codec, error) == Err(CodecError(codec, "Reading", error))

\* The deserializer reads the buffer through Read, a byte at a time.
RECURSIVE read_to_end(_, _)
read_to_end(readable, sofar) ==
    LET got == read(readable, Buffer(1))
    IN IF got.tag = "Panicked" THEN got
       ELSE IF got.value.n = 0 THEN Completed(got.self, sofar)
       ELSE read_to_end(got.self, sofar \o SubSeq(got.value.buf, 1, got.value.n))

\* The bodies that are documents of the type T asked for.
Documents == {<<97>>, <<97, 98, 97>>}

\* serde_json::from_reader / serde_urlencoded::from_reader, with map_err
from_reader(codec, readable) ==
    LET all == read_to_end(readable, <<>>)
    IN IF all.tag = "Panicked" THEN all
       ELSE IF all.value \in Documents THEN Ok([document |-> all.value])
       ELSE Err(CodecError(codec, "Deserializing", "serde"))

\* The Results the future of a called function may resolve to.
FuncResults(future) ==
    CASE future.func.name = "from_str" ->
            {from_str(future.func.bits, future.args[1].str)}
      [] future.func.name = "cloning" -> {Ok(future.func.t)}
      [] future.func.name = "content_length_limit" ->
            {content_length_handler(future.args[1], future.args[2])}
      [] future.func.name = "content_type" -> {content_type_handler(future.args[1])}
      [] future.func.name = "codec_handler" ->
            {codec_handler(future.func.codec, future.args[1], future.args[2])}
      [] future.func.name = "reading" -> {reading(future.func.codec, future.args[1])}
      [] future.func.name = "from_reader" ->
            {from_reader(future.func.codec, future.args[1])}
      [] OTHER -> future.func.results

(***************************************************************************)
(* Handle (filter/handle.rs).                                              *)
(***************************************************************************)
HandleExecute ==
    /\ Executing({"Handle"})
    /\ LET frame == [op |-> "Handle", state |-> "Filter", func |-> ctl.filter.func,
                     future |-> None, request_state |-> None,
                     hist |-> NewHist(ctl.filter, ctl.request_state, ctl.input)]
       IN /\ stack' = Append(stack, Called(frame, "filter", ctl.request_state, ctl.input))
          /\ ctl' = Execute(ctl.filter.filter, ctl.request_state, ctl.input)
    /\ UNCHANGED <<request, filter>>

\* HandleFuture::poll, Filter phase: does the outcome start the function?
HandleCallsFunc(outcome) == outcome.tag = "Success"

\* A Filter phase that starts the function without keeping the RequestState.
HandlePollFilter_DropsState ==
    /\ PollingChild("Handle", "Filter")
    /\ LET frame == Returned(Top, ChildOut)
       IN IF HandleCallsFunc(ctl.outcome)
          THEN LET next == [frame EXCEPT !.state = "Func",
                                         !.future = Some(CallFunc(frame.func, ctl.outcome.success))]
               IN /\ stack' = Append(Pop, Called(next, "func", ctl.request_state, ctl.outcome.success))
                  /\ ctl' = Await
          ELSE /\ stack' = Pop
               /\ ctl' = Ready(ctl.request_state, ctl.outcome, frame.hist)
    /\ UNCHANGED <<request, filter>>

HandlePollFilter ==
    /\ PollingChild("Handle", "Filter")
    /\ LET frame == Returned(Top, ChildOut)
       IN IF HandleCallsFunc(ctl.outcome)
          THEN LET next == [frame EXCEPT !.state = "Func",
                                         !.future = Some(CallFunc(frame.func, ctl.outcome.success)),
                                         !.request_state = Some(ctl.request_state)]
               IN /\ stack' = Append(Pop, Called(next, "func", ctl.request_state, ctl.outcome.success))
                  /\ ctl' = Await
          ELSE /\ stack' = Pop
               /\ ctl' = Ready(ctl.request_state, ctl.outcome, frame.hist)
    /\ UNCHANGED <<request, filter>>

\* Mutant: a failure of the function is swallowed into a soft failure.
HandleFuncOutcome_SwallowsErr(result) ==
    IF result.tag = "Ok" THEN Success(<<result.ok>>) ELSE Forward(<<>>, NotFound)

\* HandleFuture::poll, Func phase: result.map(|success| (success,)).into()
HandleFuncOutcome(result) ==
    IF result.tag = "Ok" THEN OutcomeFromResult(Ok(<<result.ok>>))
    ELSE OutcomeFromResult(result)

HandlePollFunc ==
    /\ ctl.kind = "await"
    /\ Top.op = "Handle" /\ Top.state = "Func"
    /\ \E result \in FuncResults(Top.future.value) :
         LET frame == Returned(Top, result)
         IN /\ stack' = Pop
            /\ ctl' = Ready(frame.request_state.value, HandleFuncOutcome(result), frame.hist)
    /\ UNCHANGED <<request, filter>>

(***************************************************************************)
(* Then (filter/then.rs).                                                  *)
(***************************************************************************)
ThenExecute ==
    /\ Executing({"Then"})
    /\ LET frame == [op |-> "Then", state |-> "First", second |-> ctl.filter.second,
                     prepend |-> Some(ctl.input),
                     firstArity |-> SuccessArity(ctl.filter.first),
                     hist |-> NewHist(ctl.filter, ctl.request_state, ctl.input)]
       IN /\ stack' = Append(stack, Called(frame, "first", ctl.request_state, <<>>))
          /\ ctl' = Execute(ctl.filter.first, ctl.request_state, <<>>)
    /\ UNCHANGED <<request, filter>>

\* ConsumeFuture::poll, First phase: the input second is executed with.
ThenSecondInput(prepend, success) == append(prepend, success)

ThenPollFirst ==
    /\ PollingChild("Then", "First")
    /\ LET frame == Returned(Top, ChildOut)
           prepend == frame.prepend.value
           taken == [frame EXCEPT !.prepend = None]
       IN CASE ctl.outcome.tag = "Success" ->
                 LET next == [taken EXCEPT !.state = "Second"]
                     arg == ThenSecondInput(prepend, ctl.outcome.success)
                 IN /\ stack' = Append(Pop, Called(next, "second", ctl.request_state, arg))
                    /\ ctl' = Execute(frame.second, ctl.request_state, arg)
            [] ctl.outcome.tag = "Error" ->
                 /\ stack' = Pop
                 /\ ctl' = Ready(ctl.request_state, Error(ctl.outcome.error), frame.hist)
            [] ctl.outcome.tag = "Forward" ->
                 /\ stack' = Pop
                 /\ ctl' = Ready(ctl.request_state,
                                 Forward(prepend, ctl.outcome.forwarding), frame.hist)
    /\ UNCHANGED <<request, filter>>

\* Mutant: second's forwarded input is handed on without splitting R off.
ThenSecondOutcome_NoRemove(outcome, firstArity) == outcome

\* ConsumeFuture::poll, Second phase: map_input(|input| R::remove(input).0)
ThenSecondOutcome(outcome, firstArity) ==
    IF outcome.tag = "Forward"
    THEN Forward(remove(outcome.input, firstArity)[1], outcome.forwarding)
    ELSE outcome

ThenPollSecond ==
    /\ PollingChild("Then", "Second")
    /\ LET frame == Returned(Top, ChildOut)
       IN /\ stack' = Pop
          /\ ctl' = Ready(ctl.request_state,
                          ThenSecondOutcome(ctl.outcome, frame.firstArity), frame.hist)
    /\ UNCHANGED <<request, filter>>

(***************************************************************************)
(* Typed recovery (errors.rs, filter/recover.rs, filter/recover_forward.rs)*)
(***************************************************************************)
Boxed == "BoxedFilterError"

\* Mutant: the downcast never refuses.
downcast_Always(boxed, T) == Ok(boxed)

\* <dyn FilterError>::downcast::<T>: exact TypeId equality.
downcast(boxed, T) ==
    IF boxed.type = T THEN Ok(boxed) ELSE Err(boxed)

\* Mutant: the envelope is downcast to like any other type.
recover_EnvelopeDowncasts(E, boxed) == downcast(boxed, E)

\* RecoverableSealed::recover for E.
recover(E, boxed) ==
    IF E = Boxed THEN Ok(boxed) ELSE downcast(boxed, E)

RecoverExecute ==
    /\ Executing({"Recover"})
    /\ LET path_index == ctl.request_state.current_path_index
           frame == [op |-> "Recover", state |-> "Filter", func |-> ctl.filter.func,
                     E |-> ctl.filter.E, path_index |-> path_index,
                     future |-> None, request_state |-> None,
                     hist |-> NewHist(ctl.filter, ctl.request_state, ctl.input)]
       IN /\ stack' = Append(stack, Called(frame, "filter", ctl.request_state, ctl.input))
          /\ ctl' = Execute(ctl.filter.filter, ctl.request_state, ctl.input)
    /\ UNCHANGED <<request, filter>>

\* What a poll in the Filter state does with the inner filter's output: it
\* returns a RequestOutcome, or calls func with the recovered error.
Return(request_state, outcome) ==
    [then |-> "return", request_state |-> request_state, outcome |-> outcome]

Call(request_state, error) ==
    [then |-> "call", request_state |-> request_state, error |-> error]

\* Mutant: a Success of the inner filter keeps the cursor it left.
RecoverFilter_SuccessKeepsCursor(E, path_index, out) ==
    LET reset == [out.request_state EXCEPT !.current_path_index = path_index]
    IN CASE out.outcome.tag = "Success" -> Return(out.request_state, out.outcome)
         [] out.outcome.tag = "Error" ->
              LET recovered == recover(E, out.outcome.error)
              IN IF recovered.tag = "Ok" THEN Call(reset, recovered.ok)
                 ELSE Return(out.request_state, Error(recovered.err))
         [] out.outcome.tag = "Forward" -> Return(out.request_state, out.outcome)

\* RecoverFuture::poll, Filter state.
RecoverFilter(E, path_index, out) ==
    LET reset == [out.request_state EXCEPT !.current_path_index = path_index]
    IN CASE out.outcome.tag = "Success" -> Return(reset, out.outcome)
         [] out.outcome.tag = "Error" ->
              LET recovered == recover(E, out.outcome.error)
              IN IF recovered.tag = "Ok" THEN Call(reset, recovered.ok)
                 ELSE Return(out.request_state, Error(recovered.err))
         [] out.outcome.tag = "Forward" -> Return(out.request_state, out.outcome)

\* RecoverFuture::poll, Func state.
RecoverFunc(path_index, request_state, result) ==
    IF result.tag = "Ok"
    THEN Return([request_state EXCEPT !.current_path_index = path_index],
                Success(<<result.ok>>))
    ELSE Return(request_state, Error(result.err))

RecoverPollFilter ==
    /\ PollingChild("Recover", "Filter")
    /\ LET frame == Returned(Top, ChildOut)
           do == RecoverFilter(frame.E, frame.path_index, ChildOut)
       IN IF do.then = "call"
          THEN LET next == [frame EXCEPT
                              !.state = "Func",
                              !.future = Some(CallFunc(frame.func, <<do.error>>)),
                              !.request_state = Some(do.request_state)]
               IN /\ stack' = Append(Pop, Called(next, "func", do.request_state, <<do.error>>))
                  /\ ctl' = Await
          ELSE /\ stack' = Pop
               /\ ctl' = Ready(do.request_state, do.outcome, frame.hist)
    /\ UNCHANGED <<request, filter>>

RecoverPollFunc ==
    /\ ctl.kind = "await"
    /\ Top.op = "Recover" /\ Top.state = "Func"
    /\ \E result \in FuncResults(Top.future.value) :
         LET frame == Returned(Top, result)
             do == RecoverFunc(frame.path_index, frame.request_state.value, result)
         IN /\ stack' = Pop
            /\ ctl' = Ready(do.request_state, do.outcome, frame.hist)
    /\ UNCHANGED <<request, filter>>

RecoverForwardExecute ==
    /\ Executing({"RecoverForward"})
    /\ LET frame == [op |-> "RecoverForward", state |-> "Filter", func |-> ctl.filter.func,
                     E |-> ctl.filter.E, future |-> None, request_state |-> None,
                     hist |-> NewHist(ctl.filter, ctl.request_state, ctl.input)]
       IN /\ stack' = Append(stack, Called(frame, "filter", ctl.request_state, ctl.input))
          /\ ctl' = Execute(ctl.filter.filter, ctl.request_state, ctl.input)
    /\ UNCHANGED <<request, filter>>

\* Mutant: a Success of the inner filter rewinds the cursor to the start.
RecoverForwardFilter_RewindsCursor(E, out) ==
    IF out.outcome.tag = "Error"
    THEN LET recovered == recover(E, out.outcome.error)
         IN IF recovered.tag = "Ok" THEN Call(out.request_state, recovered.ok)
            ELSE Return(out.request_state, Error(recovered.err))
    ELSE IF out.outcome.tag = "Success"
         THEN Return([out.request_state EXCEPT !.current_path_index = 0], out.outcome)
         ELSE Return(out.request_state, out.outcome)

\* RecoverForwardFuture::poll, Filter state.
RecoverForwardFilter(E, out) ==
    IF out.outcome.tag = "Error"
    THEN LET recovered == recover(E, out.outcome.error)
         IN IF recovered.tag = "Ok" THEN Call(out.request_state, recovered.ok)
            ELSE Return(out.request_state, Error(recovered.err))
    ELSE Return(out.request_state, out.outcome)

\* RecoverForwardFuture::poll, Func state.
RecoverForwardFunc(request_state, result) ==
    Return(request_state,
           IF result.tag = "Ok" THEN Forward(<<>>, result.ok) ELSE Error(result.err))

RecoverForwardPollFilter ==
    /\ PollingChild("RecoverForward", "Filter")
    /\ LET frame == Returned(Top, ChildOut)
           do == RecoverForwardFilter(frame.E, ChildOut)
       IN IF do.then = "call"
          THEN LET next == [frame EXCEPT
                              !.state = "Func",
                              !.future = Some(CallFunc(frame.func, <<do.error>>)),
                              !.request_state = Some(do.request_state)]
               IN /\ stack' = Append(Pop, Called(next, "func", do.request_state, <<do.error>>))
                  /\ ctl' = Await
          ELSE /\ stack' = Pop
               /\ ctl' = Ready(do.request_state, do.outcome, frame.hist)
    /\ UNCHANGED <<request, filter>>

RecoverForwardPollFunc ==
    /\ ctl.kind = "await"
    /\ Top.op = "RecoverForward" /\ Top.state = "Func"
    /\ \E result \in FuncResults(Top.future.value) :
         LET frame == Returned(Top, result)
             do == RecoverForwardFunc(frame.request_state.value, result)
         IN /\ stack' = Pop
            /\ ctl' = Ready(do.request_state, do.outcome, frame.hist)
    /\ UNCHANGED <<request, filter>>

(***************************************************************************)
(* Receive (filter/receive.rs).                                            *)
(***************************************************************************)
ReceiveExecute ==
    /\ Executing({"Receive"})
    /\ LET removed == remove(ctl.input, InputArity(ctl.filter.filter))
           frame == [op |-> "Receive", state |-> "Filter", receive |-> Some(removed[1]),
                     hist |-> NewHist(ctl.filter, ctl.request_state, ctl.input)]
       IN /\ stack' = Append(stack, Called(frame, "filter", ctl.request_state, removed[2]))
          /\ ctl' = Execute(ctl.filter.filter, ctl.request_state, removed[2])
    /\ UNCHANGED <<request, filter>>

\* Mutant: R is put back on Success only.
ReceiveOutcome_ForwardDropsR(receive, outcome) ==
    IF outcome.tag = "Success" THEN Success(append(receive, outcome.success)) ELSE outcome

\* ReceiveFuture::poll: the outcome with R put back in front.
\* A Receive that puts R behind the inner filter's values instead of in front.
ReceiveOutcome_AppendsBehind(receive, outcome) ==
    CASE outcome.tag = "Success" -> Success(append(outcome.success, receive))
      [] outcome.tag = "Error" -> Error(outcome.error)
      [] outcome.tag = "Forward" -> Forward(append(receive, outcome.input), outcome.forwarding)

ReceiveOutcome(receive, outcome) ==
    CASE outcome.tag = "Success" -> Success(append(receive, outcome.success))
      [] outcome.tag = "Error" -> Error(outcome.error)
      [] outcome.tag = "Forward" -> Forward(append(receive, outcome.input), outcome.forwarding)

ReceivePoll ==
    /\ PollingChild("Receive", "Filter")
    /\ LET frame == Returned(Top, ChildOut)
       IN /\ stack' = Pop
          /\ ctl' = Ready(ctl.request_state,
                          ReceiveOutcome(frame.receive.value, ctl.outcome), frame.hist)
    /\ UNCHANGED <<request, filter>>

(***************************************************************************)
(* The requests and the filter chains that are evaluated.                  *)
(***************************************************************************)
Methods == {"GET", "POST"}

\* http::Uri paths: empty (authority form) or starting with a slash.
Paths ==
    {p \in UNION {[1..n -> PathBytes] : n \in 0..MaxPathLen} : p = <<>> \/ p[1] = SLASH}

Requests == [path : Paths, method : Methods]

Val(x) == [val |-> x]
InputValues == {Val("r1"), Val("r2")}
Inputs(n) == [1..n -> InputValues]

E1 == [type |-> "E1", data |-> "handler"]
E2 == [type |-> "E2", data |-> "handler"]
E2r == [type |-> "E2", data |-> "recovery"]

\* A handler that may answer, or fail with either error type.
FnAny == [name |-> "handler", results |-> {Ok(Val("v")), Err(E1), Err(E2)}]
\* A recovery function: recovers to a value or fails with another error.
FnRecover == [name |-> "recovery", results |-> {Ok(Val("w")), Err(E2r)}]
\* A RecoverForward function: the recovered value is a Forwarding.
FnForward ==
    [name |-> "forwarding",
     results |-> {Ok(NotFound), Ok(MethodNotAllowed(AttemptedPOST)), Err(E1)}]

\* literal("a") and literal("aa")
LitA == Literal(<<97>>)
LitAA == Literal(<<97, 97>>)
Get == Method("GET")
Post == Method("POST")

Unit0 == {LitA, End, Get, Post}
Seq0 == {And(LitA, y) : y \in Unit0} \cup {And(LitAA, End)}
Branch0 == Unit0 \cup Seq0
Handled == {Handle(x, FnAny) : x \in {LitA, End, ParamStr, And(LitA, End)}}
Branch1 == {ParamStr, And(LitA, ParamStr), And(ParamStr, LitA), And(ParamStr, End)}
              \cup Handled

OrChains ==
    {Or(x, y) : x \in Branch0, y \in Branch0} \cup {Or(x, y) : x \in Branch1, y \in Branch1}

NestedOrChains ==
    {And(LitA, Or(x, y)) : x \in {LitA, And(LitA, LitA), And(LitA, End), And(ParamStr, Get)},
                           y \in {LitA, End, And(LitA, Post), And(ParamStr, LitA)}}

InputOrChains ==
    {Or(Receive(x, 1), Receive(y, 1)) : x \in {LitA, And(LitA, Get)},
                                        y \in {End, And(LitA, LitA), Post}}

AndChains ==
    {And(x, y) : x \in {LitA, LitAA, ParamStr, Get, And(LitA, End), Handle(LitA, FnAny)},
                 y \in {LitA, End, ParamStr, TailF, Post, Handle(End, FnAny),
                        Receive(ParamStr, 1), Receive(LitA, 2)}}

HandleChains ==
    {Handle(x, FnAny) : x \in Branch0 \cup Branch1
                               \cup {Receive(LitA, 1), Receive(ParamStr, 1)}}

ThenChains ==
    {Then(a, b, r) : a \in {LitA, ParamStr, And(LitA, End), Handle(LitA, FnAny)},
                     b \in UNION {{Receive(LitA, n), Receive(End, n), Receive(ParamStr, n),
                                   Handle(Receive(LitA, n), FnAny)} : n \in 0..3},
                     r \in 0..2}

RecoverTypes == {"E1", "E2", "Redirect", Boxed}

Failing == {Handle(LitA, FnAny), Handle(And(LitA, End), FnAny)}

RecoverChains ==
    {Recover(t, FnRecover, e) : t \in Handled, e \in RecoverTypes}
      \cup {Recover(Recover(t, FnRecover, e2), FnRecover, e1) :
              t \in Failing, e1 \in RecoverTypes, e2 \in RecoverTypes}

RecoverForwardChains ==
    {RecoverForward(t, FnForward, e) : t \in Handled, e \in RecoverTypes}

\* Recovery entered after a literal has moved the cursor.
NestedRecoverChains ==
    {And(LitA, Recover(t, FnRecover, e)) : t \in Failing, e \in {"E1", "Redirect"}}
      \cup {And(LitA, RecoverForward(t, FnForward, e)) : t \in Failing, e \in {"E1", "Redirect"}}

ReceiveChains ==
    {Receive(x, r) : x \in {LitA, ParamStr, And(LitA, End), Handle(LitA, FnAny)},
                     r \in 1..2}

\* param::<T>() for a signed integer T (path.rs:64-79).
param(bits) ==
    RecoverForward(Handle(ParamStr, [name |-> "from_str", bits |-> bits]),
                   [name |-> "forward_param", results |-> {Ok(NotFound)}],
                   "ForwardParam")

\* The type checker's conditions on a chain (the where clauses of FilterExecute).
RECURSIVE WellTyped(_)
WellTyped(f) ==
    CASE f.op \in {"Literal", "End", "Any", "Method", "ParamStr", "Tail", "TailPath"} -> TRUE
      [] f.op = "And" ->
            WellTyped(f.first) /\ WellTyped(f.second) /\ InputArity(f.first) = 0
      [] f.op = "Or" ->
            /\ WellTyped(f.first) /\ WellTyped(f.second)
            /\ InputArity(f.first) = InputArity(f.second)
            /\ SuccessArity(f.first) = SuccessArity(f.second)
      [] f.op = "Handle" -> WellTyped(f.filter)
      [] f.op = "Then" ->
            /\ WellTyped(f.first) /\ WellTyped(f.second)
            /\ InputArity(f.first) = 0
            /\ InputArity(f.second) = f.arity + SuccessArity(f.first)
      [] f.op = "Recover" -> WellTyped(f.filter) /\ SuccessArity(f.filter) = 1
      [] f.op = "RecoverForward" -> WellTyped(f.filter) /\ InputArity(f.filter) = 0
      [] f.op = "Receive" -> WellTyped(f.filter)

Filters ==
    {f \in OrChains \cup NestedOrChains \cup InputOrChains \cup AndChains \cup HandleChains
             \cup ThenChains \cup RecoverChains \cup RecoverForwardChains \cup ReceiveChains
             \cup NestedRecoverChains :
        WellTyped(f)}

(***************************************************************************)
(* The specification: one request evaluated against one chain.             *)
(***************************************************************************)
Init ==
    /\ filter \in Filters
    /\ request \in Requests
    /\ stack = <<>>
    /\ ctl \in {Execute(filter, NewRequestState, input) : input \in Inputs(InputArity(filter))}

Next ==
    \/ ReadyFilterExecute
    \/ ParamStrExecute
    \/ TailExecute
    \/ OrExecute
    \/ OrPollFirst
    \/ OrPollSecond
    \/ AndExecute
    \/ AndPollFirst
    \/ AndPollSecond
    \/ HandleExecute
    \/ HandlePollFilter
    \/ HandlePollFunc
    \/ ThenExecute
    \/ ThenPollFirst
    \/ ThenPollSecond
    \/ RecoverExecute
    \/ RecoverPollFilter
    \/ RecoverPollFunc
    \/ RecoverForwardExecute
    \/ RecoverForwardPollFilter
    \/ RecoverForwardPollFunc
    \/ ReceiveExecute
    \/ ReceivePoll

Spec == Init /\ [][Next]_vars

(***************************************************************************)
(* A second specification: the path filters on paths that may hold percent *)
(* escapes.  The bytes are '/', '%', '4', '1' and 'A', and there is the    *)
(* asterisk-form path "*".  literal(L).and(end()), alone and as the first  *)
(* branch of an Or, is evaluated for the literals "A", "%41" and "%4";     *)
(* literal, param_str and end are evaluated alone and after one another,   *)
(* for those literals and for "a" and "*".                                 *)
(***************************************************************************)
MaxEscapedLen == 5

EscapedBytes == {SLASH, 37, 52, 49, 65}

EscapedPaths ==
    {p \in UNION {[1..n -> EscapedBytes] : n \in 0..MaxEscapedLen} : p = <<>> \/ p[1] = SLASH}
      \cup {<<42>>}

EscapedLiterals == {<<65>>, <<37, 52, 49>>, <<37, 52>>}

SegmentLiterals == EscapedLiterals \cup {<<97>>, <<42>>}

EscapedFilters ==
    UNION {{And(Literal(l), End),
            Or(And(Literal(l), End), End),
            Or(And(Literal(l), End), Literal(l))} : l \in EscapedLiterals}
      \cup UNION {{Literal(l), And(ParamStr, Literal(l)), And(Literal(l), Literal(l))} :
                    l \in SegmentLiterals}
      \cup {ParamStr, End, And(ParamStr, ParamStr), And(ParamStr, End),
            And(And(ParamStr, ParamStr), End), And(Literal(<<42>>), End)}

InitEscaped ==
    /\ filter \in EscapedFilters
    /\ request \in [path : EscapedPaths, method : {"GET"}]
    /\ stack = <<>>
    /\ ctl = Execute(filter, NewRequestState, <<>>)

NextEscaped ==
    \/ ReadyFilterExecute
    \/ ParamStrExecute
    \/ OrExecute
    \/ OrPollFirst
    \/ OrPollSecond
    \/ AndExecute
    \/ AndPollFirst
    \/ AndPollSecond

SpecEscaped == InitEscaped /\ [][NextEscaped]_vars

(***************************************************************************)
(* A third specification: typed parameters.  param::<i8>() and             *)
(* param::<i32>(), alone and in literal("a").and(param()).and(literal(     *)
(* "bar")).and(end()), on "/<segment>" and "/a/<segment>/bar".  Segments   *)
(* are short strings over '0', '1', '2', '9', '+', '-', 'x', and a few     *)
(* longer ones around the limits of i8 and i32.                            *)
(***************************************************************************)
MaxParamLen == 3

ParamBytes == {48, 49, 50, 57, 43, 45, 120}

LongSegments ==
    {<<50, 51, 52, 53>>,                                \* 2345
     <<50, 51, 52, 53, 120>>,                           \* 2345x
     <<50, 49, 52, 55, 52, 56, 51, 54, 52, 55>>,        \* 2147483647
     <<50, 49, 52, 55, 52, 56, 51, 54, 52, 56>>,        \* 2147483648
     <<45, 50, 49, 52, 55, 52, 56, 51, 54, 52, 56>>,    \* -2147483648
     <<45, 50, 49, 52, 55, 52, 56, 51, 54, 52, 57>>,    \* -2147483649
     <<57, 57, 57, 57, 57, 57, 57, 57, 57, 57, 57>>,    \* 99999999999
     <<45, 49, 50, 56>>,                                \* -128
     <<45, 49, 50, 57>>}                                \* -129

ParamSegments ==
    UNION {[1..n -> ParamBytes] : n \in 1..MaxParamLen} \cup LongSegments

\* "bar"
LitBar == Literal(<<98, 97, 114>>)

ParamChain(bits) == And(And(And(LitA, param(bits)), LitBar), End)

ParamPaths ==
    {<<SLASH, 97, SLASH>> \o seg \o <<SLASH, 98, 97, 114>> : seg \in ParamSegments}
      \cup {<<SLASH>> \o seg : seg \in ParamSegments}
      \cup {<<>>, <<SLASH>>, <<SLASH, 97>>, <<SLASH, 97, SLASH>>}

InitParam ==
    /\ filter \in UNION {{param(bits), ParamChain(bits)} : bits \in {8, 32}}
    /\ request \in [path : ParamPaths, method : {"GET"}]
    /\ stack = <<>>
    /\ ctl = Execute(filter, NewRequestState, <<>>)

NextParam ==
    \/ ReadyFilterExecute
    \/ ParamStrExecute
    \/ AndExecute
    \/ AndPollFirst
    \/ AndPollSecond
    \/ HandleExecute
    \/ HandlePollFilter
    \/ HandlePollFunc
    \/ RecoverForwardExecute
    \/ RecoverForwardPollFilter
    \/ RecoverForwardPollFunc

SpecParam == InitParam /\ [][NextParam]_vars

(***************************************************************************)
(* A fourth specification: tail_path, alone and after literal("a") or      *)
(* param_str(), on paths made of up to MaxTailSegs segments, each after a  *)
(* slash.  The segments are chosen for sanitize_path's checks; '<', '>'    *)
(* and the null byte only reach a path percent-encoded.                    *)
(***************************************************************************)
MaxTailSegs == 2

TailSegments ==
    {<<>>,                              \* (empty)
     <<97>>,                            \* a
     <<97, 46, 98>>,                    \* a.b
     <<46>>,                            \* .
     <<46, 46>>,                        \* ..
     <<46, 97>>,                        \* .a
     <<42>>,                            \* *
     <<97, 42>>,                        \* a*
     <<97, 58>>,                        \* a:
     <<58, 97>>,                        \* :a
     <<97, 37, 51, 67>>,                \* a%3C
     <<97, 37, 51, 69>>,                \* a%3E
     <<37, 51, 67, 97>>,                \* %3Ca
     <<97, 92, 98>>,                    \* a, backslash, b
     <<97, 37, 53, 67>>,                \* a%5C
     <<97, 37, 48, 48, 98>>,            \* a%00b
     <<37, 50, 101, 37, 50, 101>>,      \* %2e%2e
     <<37, 50, 70>>,                    \* %2F
     <<97, 37, 50, 102, 46, 46>>,       \* a%2f..
     <<97, 37, 50, 102, 98>>,           \* a%2fb
     <<37, 102, 102>>,                  \* %ff
     <<37, 67, 51, 37, 65, 57>>}        \* %C3%A9

RECURSIVE TailPaths(_)
TailPaths(n) ==
    IF n = 0 THEN {<<>>}
    ELSE {<<>>} \cup {<<SLASH>> \o seg \o rest : seg \in TailSegments, rest \in TailPaths(n - 1)}

InitTail ==
    /\ filter \in {TailPath, And(LitA, TailPath), And(ParamStr, TailPath), And(TailPath, End)}
    /\ request \in [path : TailPaths(MaxTailSegs), method : {"GET"}]
    /\ stack = <<>>
    /\ ctl = Execute(filter, NewRequestState, <<>>)

NextTail ==
    \/ ReadyFilterExecute
    \/ ParamStrExecute
    \/ AndExecute
    \/ AndPollFirst
    \/ AndPollSecond

SpecTail == InitTail /\ [][NextTail]_vars

(***************************************************************************)
(* Forwarding::combine on its own (forward.rs).  Three forwarding reasons   *)
(* are drawn from the reasons a filter can produce; the steps combine them  *)
(* the way nested `or` filters do (or.rs): first with second, second with   *)
(* first, and the three of them grouped to the left and to the right.       *)
(***************************************************************************)
MaxMethods == 3

\* AttemptedMethods values: every set of the first MaxMethods methods, TRACE
\* alone (the highest constant) and all nine methods together.
AttemptedSets == 0..(2^MaxMethods - 1) \cup {256, 511}

Forwardings == {NotFound} \cup {MethodNotAllowed(attempted) : attempted \in AttemptedSets}

Combining(a, b, c) ==
    [kind |-> "combine", a |-> a, b |-> b, c |-> c,
     ab |-> None, ba |-> None, left |-> None, right |-> None]

InitCombine ==
    /\ filter = Or(Or(Get, Post), Get)
    /\ request = [path |-> <<SLASH>>, method |-> "GET"]
    /\ stack = <<>>
    /\ \E a \in Forwardings, b \in Forwardings, c \in Forwardings :
            ctl = Combining(a, b, c)

\* first_forwarding.combine(forwarding)
CombineFirst ==
    /\ ctl.kind = "combine"
    /\ ~ctl.ab.some
    /\ ctl' = [ctl EXCEPT !.ab = Some(combine(ctl.a, ctl.b))]
    /\ UNCHANGED <<request, filter, stack>>

\* The same two reasons met in the other order.
CombineSwapped ==
    /\ ctl.kind = "combine"
    /\ ~ctl.ba.some
    /\ ctl' = [ctl EXCEPT !.ba = Some(combine(ctl.b, ctl.a))]
    /\ UNCHANGED <<request, filter, stack>>

\* (a.or(b)).or(c): the inner reason combined with the third.
CombineLeft ==
    /\ ctl.kind = "combine"
    /\ ctl.ab.some
    /\ ~ctl.left.some
    /\ ctl' = [ctl EXCEPT !.left = Some(combine(ctl.ab.value, ctl.c))]
    /\ UNCHANGED <<request, filter, stack>>

\* a.or(b.or(c)): the first reason combined with the inner one.
CombineRight ==
    /\ ctl.kind = "combine"
    /\ ~ctl.right.some
    /\ ctl' = [ctl EXCEPT !.right = Some(combine(ctl.a, combine(ctl.b, ctl.c)))]
    /\ UNCHANGED <<request, filter, stack>>

NextCombine ==
    \/ CombineFirst
    \/ CombineSwapped
    \/ CombineLeft
    \/ CombineRight

SpecCombine == InitCombine /\ [][NextCombine]_vars

(***************************************************************************)
(* Value lists on their own (generics/tuples.rs).  Two tuples are drawn     *)
(* whose arities sum to at most MaxArity; the steps append the second to    *)
(* the first and split the result again.                                    *)
(***************************************************************************)
MaxArity == 4

TupleElems == {"x", "y", "z"}

RECURSIVE Tuples(_)
Tuples(n) ==
    IF n = 0 THEN {<<>>}
    ELSE Tuples(n - 1) \cup {append_one(t, e) : t \in {u \in Tuples(n - 1) : Len(u) = n - 1},
                                                e \in TupleElems}

Appending(self, ending) ==
    [kind |-> "tuples", self |-> self, ending |-> ending,
     appended |-> None, removed |-> None]

InitTuples ==
    /\ filter = Receive(AnyF, MaxArity)
    /\ request = [path |-> <<SLASH>>, method |-> "GET"]
    /\ stack = <<>>
    /\ \E self \in Tuples(MaxArity) :
        \E ending \in Tuples(MaxArity - Len(self)) :
            ctl = Appending(self, ending)

\* self.append(ending)
TupleAppend ==
    /\ ctl.kind = "tuples"
    /\ ~ctl.appended.some
    /\ ctl' = [ctl EXCEPT !.appended = Some(append(ctl.self, ctl.ending))]
    /\ UNCHANGED <<request, filter, stack>>

\* <Self as Append<Ending>>::remove(appended)
TupleRemove ==
    /\ ctl.kind = "tuples"
    /\ ctl.appended.some
    /\ ~ctl.removed.some
    /\ ctl' = [ctl EXCEPT !.removed = Some(remove(ctl.appended.value, Len(ctl.ending)))]
    /\ UNCHANGED <<request, filter, stack>>

NextTuples ==
    \/ TupleAppend
    \/ TupleRemove

SpecTuples == InitTuples /\ [][NextTuples]_vars

(***************************************************************************)
(* The buffer on its own: a queue of at most MaxChunks non-empty chunks    *)
(* (poll_body keeps no empty chunk) with its total, then any sequence of   *)
(* read and advance calls with sizes up to MaxBuf.                         *)
(***************************************************************************)
MaxChunks == 2
MaxChunkLen == 2
MaxBuf == 3

BodyBytes == {97, 98}

RECURSIVE Chunks(_)
Chunks(n) ==
    IF n = 0 THEN {}
    ELSE Chunks(n - 1) \cup
         {<<b>> \o c : b \in BodyBytes, c \in {<<>>} \cup {d \in Chunks(n - 1) : Len(d) = n - 1}}

RECURSIVE ChunkQueues(_)
ChunkQueues(n) ==
    IF n = 0 THEN {<<>>}
    ELSE ChunkQueues(n - 1) \cup
         {Append(q, c) : q \in {p \in ChunkQueues(n - 1) : Len(p) = n - 1},
                         c \in Chunks(MaxChunkLen)}

RECURSIVE SumLen(_)
SumLen(bytes) == IF bytes = <<>> THEN 0 ELSE Len(Head(bytes)) + SumLen(Tail(bytes))

Reading(bytes) ==
    [kind |-> "bytes_buf", original |-> bytes, reader |-> BytesBuf(bytes, SumLen(bytes)),
     out |-> <<>>, advanced |-> 0, panicked |-> FALSE, last |-> [op |-> "new"]]

InitBuf ==
    /\ filter = AnyF
    /\ request = [path |-> <<SLASH>>, method |-> "GET"]
    /\ stack = <<>>
    /\ \E bytes \in ChunkQueues(MaxChunks) : ctl = Reading(bytes)

\* reader.read(&mut buf)
BufRead ==
    /\ ctl.kind = "bytes_buf"
    /\ ~ctl.panicked
    /\ \E size \in 0..MaxBuf :
        LET result == read(ctl.reader, Buffer(size))
            last == [op |-> "read", size |-> size, before |-> ctl.reader, result |-> result]
        IN IF result.tag = "Panicked"
           THEN ctl' = [ctl EXCEPT !.panicked = TRUE, !.last = last]
           ELSE ctl' = [ctl EXCEPT !.reader = result.self,
                                   !.out = @ \o SubSeq(result.value.buf, 1, result.value.n),
                                   !.last = last]
    /\ UNCHANGED <<request, filter, stack>>

\* reader.advance(cnt)
BufAdvance ==
    /\ ctl.kind = "bytes_buf"
    /\ ~ctl.panicked
    /\ \E cnt \in 0..MaxBuf :
        LET result == advance(ctl.reader, cnt)
            last == [op |-> "advance", size |-> cnt, before |-> ctl.reader, result |-> result]
        IN IF result.tag = "Panicked"
           THEN ctl' = [ctl EXCEPT !.panicked = TRUE, !.last = last]
           ELSE ctl' = [ctl EXCEPT !.reader = result.self,
                                   !.advanced = @ + cnt,
                                   !.last = last]
    /\ UNCHANGED <<request, filter, stack>>

NextBuf ==
    \/ BufRead
    \/ BufAdvance

SpecBuf == InitBuf /\ [][NextBuf]_vars

(***************************************************************************)
(* Header and body filters: header::value_optional (header.rs), body::all  *)
(* (body.rs), Untuple (filter/untuple.rs), cloning (basic/mod.rs).         *)
(***************************************************************************)
HeaderValueOptional(name) == [op |-> "HeaderValue", name |-> name]
TakeBody == [op |-> "TakeBody"]
Untuple(t) == [op |-> "Untuple", filter |-> t]

\* any().handle(move || async move { Ok(t) })
cloning(t) == Handle(AnyF, [name |-> "cloning", t |-> t])

content_length_limit(limit) ==
    Untuple(Handle(And(HeaderValueOptional("content-length"), cloning(limit)),
                   [name |-> "content_length_limit"]))

\* header::content_type
content_type ==
    Untuple(Handle(HeaderValueOptional("content-type"), [name |-> "content_type"]))

\* A codec that reads the body before it looks at the Content-Type.
codec_request_BodyFirst(codec) ==
    Handle(And(Recover(TakeBody, [name |-> "reading", codec |-> codec], "body::Error"),
               Untuple(Handle(content_type, [name |-> "codec_handler", codec |-> codec]))),
           [name |-> "from_reader", codec |-> codec])

\* json::request and urlencoded::request
codec_request(codec) ==
    Handle(And(Untuple(Handle(content_type, [name |-> "codec_handler", codec |-> codec])),
               Recover(TakeBody, [name |-> "reading", codec |-> codec], "body::Error")),
           [name |-> "from_reader", codec |-> codec])

\* HeaderValueFilter::execute
HeaderValueExecute ==
    /\ Executing({"HeaderValue"})
    /\ LeafReady([request_state |-> ctl.request_state,
                  outcome |-> Success(<<header(request, ctl.filter.name)>>)])

\* TakeBody::execute
TakeBodyExecute ==
    /\ Executing({"TakeBody"})
    /\ LET frame == [op |-> "TakeBody", state |-> "Body",
                     request_state |-> Some(ctl.request_state),
                     hist |-> NewHist(ctl.filter, ctl.request_state, ctl.input)]
       IN /\ stack' = Append(stack, frame)
          /\ ctl' = Await
    /\ UNCHANGED <<request, filter>>

\* TakeBodyFuture::poll
\* Mutant: the chunks are moved out of the RequestState into the buffer.
TakeBodyPoll_TakesBytes ==
    /\ ctl.kind = "await"
    /\ Top.op = "TakeBody"
    /\ LET polled == poll_body(Top.request_state.value)
       IN IF polled.ready
          THEN /\ stack' = Pop
               /\ ctl' = Ready(IF polled.result.tag = "Ok"
                               THEN [polled.request_state EXCEPT !.body = BodyFinished(<<>>, 0)]
                               ELSE polled.request_state,
                               take_body(polled.result),
                               Returned(Top, polled.result).hist)
          ELSE /\ stack' = Append(Pop, [Top EXCEPT !.request_state = Some(polled.request_state)])
               /\ ctl' = Await
    /\ UNCHANGED <<request, filter>>

TakeBodyPoll ==
    /\ ctl.kind = "await"
    /\ Top.op = "TakeBody"
    /\ LET polled == poll_body(Top.request_state.value)
       IN IF polled.ready
          THEN /\ stack' = Pop
               /\ ctl' = Ready(polled.request_state, take_body(polled.result),
                               Returned(Top, polled.result).hist)
          ELSE /\ stack' = Append(Pop, [Top EXCEPT !.request_state = Some(polled.request_state)])
               /\ ctl' = Await
    /\ UNCHANGED <<request, filter>>

\* Untuple::execute
UntupleExecute ==
    /\ Executing({"Untuple"})
    /\ LET frame == [op |-> "Untuple", state |-> "Filter",
                     hist |-> NewHist(ctl.filter, ctl.request_state, ctl.input)]
       IN /\ stack' = Append(stack, Called(frame, "filter", ctl.request_state, ctl.input))
          /\ ctl' = Execute(ctl.filter.filter, ctl.request_state, ctl.input)
    /\ UNCHANGED <<request, filter>>

\* Tuple::into_inner for (T,)
into_inner(self) == self[1]

\* UntupleFuture::poll: request_outcome.map(Tuple::into_inner)
UntuplePoll ==
    /\ PollingChild("Untuple", "Filter")
    /\ LET frame == Returned(Top, ChildOut)
       IN /\ stack' = Pop
          /\ ctl' = Ready(ctl.request_state,
                          IF ctl.outcome.tag = "Success"
                          THEN Success(into_inner(ctl.outcome.success))
                          ELSE ctl.outcome,
                          frame.hist)
    /\ UNCHANGED <<request, filter>>

(***************************************************************************)
(* A specification of the body filters: requests with Content-Length and   *)
(* a body stream of at most MaxStream answers.                             *)
(***************************************************************************)
MaxStream == 2

StreamItems == {Data(<<>>), Data(<<97>>), Data(<<98, 97>>), StreamErr, StreamPending}

RECURSIVE Streams(_)
Streams(n) ==
    IF n = 0 THEN {<<>>}
    ELSE Streams(n - 1) \cup
         {Append(s, item) : s \in {t \in Streams(n - 1) : Len(t) = n - 1}, item \in StreamItems}

\* Content-Length values: "0", "5", "6", "10", "11", "005"
ContentLengths ==
    {None} \cup {Some(v) : v \in {<<48>>, <<53>>, <<54>>, <<49, 48>>, <<49, 49>>, <<48, 48, 53>>}}

Limits == {0, 5, 10}

Headers(length_value, type_value) ==
    [n \in {"content-length", "content-type"} |->
        IF n = "content-length" THEN length_value ELSE type_value]

LimitFilters ==
    UNION {{content_length_limit(limit),
            And(content_length_limit(limit), TakeBody),
            And(TakeBody, content_length_limit(limit))} : limit \in Limits}

ContentTypes ==
    {None} \cup {Some(v) : v \in {"application/json", "application/json; charset=utf-8",
                                  "application/x-www-form-urlencoded", "text/json",
                                  "json"}}

Codecs == {"json", "urlencoded"}

\* A recovery function that answers with a value.
FnRecovered == [name |-> "recovery", results |-> {Ok(Val("w"))}]

\* The codecs, alone and inside a Recover for an error type.
CodecFilters ==
    {codec_request(codec) : codec \in Codecs}
      \cup {Recover(codec_request(codec), FnRecovered, E) :
                codec \in Codecs, E \in {"json::Error", "urlencoded::Error", "body::Error"}}

InitBody ==
    /\ stack = <<>>
    /\ \E body \in Streams(MaxStream) :
        /\ \/ /\ filter \in LimitFilters
              /\ \E content_length \in ContentLengths :
                    request = [path |-> <<SLASH>>, method |-> "POST",
                               headers |-> Headers(content_length, None)]
           \/ /\ filter \in CodecFilters
              /\ \E value \in ContentTypes :
                    request = [path |-> <<SLASH>>, method |-> "POST",
                               headers |-> Headers(None, value)]
        /\ ctl = Execute(filter, RequestStateNew(body), <<>>)

NextBody ==
    \/ ReadyFilterExecute
    \/ HeaderValueExecute
    \/ TakeBodyExecute
    \/ TakeBodyPoll
    \/ UntupleExecute
    \/ UntuplePoll
    \/ AndExecute
    \/ AndPollFirst
    \/ AndPollSecond
    \/ HandleExecute
    \/ HandlePollFilter
    \/ HandlePollFunc
    \/ RecoverExecute
    \/ RecoverPollFilter
    \/ RecoverPollFunc

SpecBody == InitBody /\ [][NextBody]_vars

(***************************************************************************)
(* The service (service.rs): the chain is executed with a fresh            *)
(* RequestState and the top-level outcome is turned into the response.     *)
(* Of a Response, the status, the Location and Allow headers and the body  *)
(* are modelled.                                                           *)
(***************************************************************************)
OK == 200
NOT_FOUND == 404
METHOD_NOT_ALLOWED == 405

\* Responder::with_header
with_header(response, name, value) == (name :> Some(value)) @@ response

\* Responder for a body type: Response::new(self.into())
responder_into_response(responder) ==
    [status |-> OK, location |-> None, body |-> responder]

RECURSIVE BitAndN(_, _, _)
BitAndN(a, b, bits) ==
    IF bits = 0 THEN 0
    ELSE (IF (a % 2 = 1) /\ (b % 2 = 1) THEN 1 ELSE 0)
         + 2 * BitAndN(a \div 2, b \div 2, bits - 1)

\* AttemptedMethods::bitand
bitand(a, b) == BitAndN(a, b, AttemptedBits)

\* The constants of AttemptedMethods with their Method names, in the order
\* into_header_value checks them.
CheckedMethods ==
    <<[bit |-> 1, name |-> "GET"], [bit |-> 2, name |-> "POST"],
      [bit |-> 4, name |-> "PUT"], [bit |-> 8, name |-> "DELETE"],
      [bit |-> 16, name |-> "HEAD"], [bit |-> 32, name |-> "OPTIONS"],
      [bit |-> 64, name |-> "CONNECT"], [bit |-> 128, name |-> "PATCH"],
      [bit |-> 256, name |-> "TRACE"]>>

\* check_method!: the header value is a sequence of pieces of text.
RECURSIVE check_methods(_, _, _)
check_methods(self, methods, string) ==
    IF methods = <<>> THEN string
    ELSE LET m == Head(methods)
             next == IF bitand(self, m.bit) # 0
                     THEN (IF string # <<>> THEN Append(string, ", ") ELSE string)
                              \o <<m.name>>
                     ELSE string
         IN check_methods(self, Tail(methods), next)

\* A header value that lists at most one method.
into_header_value_FirstOnly(self) ==
    LET all == check_methods(self, CheckedMethods, <<>>)
    IN IF all = <<>> THEN all ELSE <<Head(all)>>

\* AttemptedMethods::into_header_value
into_header_value(self) == check_methods(self, CheckedMethods, <<>>)

\* Forwarding::into_response
forwarding_into_response(self) ==
    IF self.tag = "NotFound" THEN default_response(NOT_FOUND)
    ELSE with_header(default_response(METHOD_NOT_ALLOWED), "allow",
                     into_header_value(self.attempted))

\* handle_requests: match future.await.outcome
service_response(outcome) ==
    CASE outcome.tag = "Success" -> responder_into_response(outcome.success[1])
      [] outcome.tag = "Error" -> error_into_response(outcome.error)
      [] outcome.tag = "Forward" -> forwarding_into_response(outcome.forwarding)

Responded(outcome, response) ==
    [kind |-> "response", outcome |-> outcome, response |-> response]

ServiceRespond ==
    /\ ctl.kind = "ready"
    /\ stack = <<>>
    /\ ctl' = Responded(ctl.outcome, service_response(ctl.outcome))
    /\ UNCHANGED <<request, filter, stack>>

\* A RecoverForward function that may name any set of attempted methods.
FnForwardings == [name |-> "forwarding", results |-> {Ok(f) : f \in Forwardings}]

\* Chains a service can run: no input, one value to respond with.
\* Two handlers behind method filters, alone and after a literal.
Routes ==
    {Or(Handle(Get, FnAny), Handle(Post, FnAny)),
     Handle(Or(Get, Post), FnAny),
     Or(Handle(And(LitA, Get), FnAny), Handle(And(LitA, Post), FnAny))}

ServiceFilters ==
    {f \in Filters : InputArity(f) = 0 /\ SuccessArity(f) = 1}
      \cup Routes
      \cup {RecoverForward(t, FnForwardings, e) : t \in Failing, e \in {"E1", "E2"}}

InitService ==
    /\ filter \in ServiceFilters
    /\ request \in [path : Paths, method : Methods \cup {"PUT"}]
    /\ stack = <<>>
    /\ ctl = Execute(filter, NewRequestState, <<>>)

NextService ==
    \/ Next
    \/ ServiceRespond

SpecService == InitService /\ [][NextService]_vars

(***************************************************************************)
(* Several requests against one chain (service.rs): each request is a task *)
(* with its own Request, RequestState and futures; the executor runs one   *)
(* task at a time and may switch between them at every step.  The task     *)
(* that is running is in request, stack and ctl; the other one is parked   *)
(* in request.parked.  Each pair of requests is first evaluated one after  *)
(* the other, and then again with the steps of the two interleaved.        *)
(***************************************************************************)
\* A request hyper has accepted and the service has not yet seen.
Accepted(body) == [kind |-> "accepted", body |-> body]

\* A service that builds the RequestState of a request out of the one of the
\* request before it.
from_hyper_SharesState(body) ==
    IF request.parked.ctl.kind \in {"execute", "ready"}
    THEN request.parked.ctl.request_state
    ELSE RequestStateNew(body)

\* request::from_hyper: the RequestState of a new request.
from_hyper(body) == RequestStateNew(body)

Task(id, req) ==
    [id |-> id, path |-> req.path, method |-> req.method, stack |-> <<>>,
     ctl |-> Accepted(req.body)]

Finished(task) == task.ctl.kind = "ready" /\ task.stack = <<>>

Running == [id |-> request.id, path |-> request.path, method |-> request.method,
            stack |-> stack, ctl |-> ctl]

\* What a finished task ends with.
Result(task) == [outcome |-> task.ctl.outcome, request_state |-> task.ctl.request_state]

FnOk == [name |-> "handler", results |-> {Ok(Val("v"))}]
FnErr == [name |-> "handler", results |-> {Err(E1)}]

TaskFilters ==
    {Or(And(And(LitA, End), TakeBody), And(LitAA, TakeBody)),
     Recover(Handle(And(LitA, TakeBody), FnErr), FnOk, "E1"),
     Or(Handle(And(Get, ParamStr), FnOk), Handle(And(LitA, ParamStr), FnOk))}

TaskPaths == {<<SLASH, 97>>, <<SLASH, 97, 97>>, <<SLASH, 97, SLASH, 97>>}

TaskBodies ==
    {<<StreamPending, Data(<<98, 97>>), StreamPending>>, <<Data(<<97>>), StreamErr>>}

TaskRequests == [path : TaskPaths, method : Methods, body : TaskBodies]

InitTasks ==
    /\ filter \in TaskFilters
    /\ stack = <<>>
    /\ \E first \in TaskRequests, second \in TaskRequests :
        /\ request = [id |-> 1, path |-> first.path, method |-> first.method,
                      parked |-> Task(2, second), phase |-> "alone",
                      bodies |-> <<first.body, second.body>>,
                      alone |-> <<>>, interleaved |-> FALSE]
        /\ ctl = Accepted(first.body)

\* handle_requests: the service is called with a request.
TaskAccept ==
    /\ ctl.kind = "accepted"
    /\ ctl' = Execute(filter, from_hyper(ctl.body), <<>>)
    /\ UNCHANGED <<request, filter, stack>>

\* The executor leaves the running task where it is and resumes the other.
\* While the requests are evaluated alone, only a finished task is left.
TaskSwitch ==
    /\ request.phase = "together" \/ (Finished(Running) /\ ~Finished(request.parked))
    /\ LET next == request.parked
       IN /\ request' = [request EXCEPT
                            !.id = next.id, !.path = next.path, !.method = next.method,
                            !.parked = Running,
                            !.interleaved = @ \/ (/\ request.phase = "together"
                                                  /\ stack # <<>>
                                                  /\ next.stack # <<>>)]
          /\ stack' = next.stack
          /\ ctl' = next.ctl
    /\ UNCHANGED filter

\* Both requests have been evaluated alone: the same two requests arrive
\* again, to be evaluated together.
TaskRestart ==
    /\ request.phase = "alone"
    /\ Finished(Running)
    /\ Finished(request.parked)
    /\ LET results == [id \in {1, 2} |->
                          IF id = request.id THEN Result(Running) ELSE Result(request.parked)]
           running == [id |-> request.id, path |-> request.path, method |-> request.method,
                       body |-> request.bodies[request.id]]
           other == [id |-> request.parked.id, path |-> request.parked.path,
                     method |-> request.parked.method,
                     body |-> request.bodies[request.parked.id]]
       IN /\ request' = [request EXCEPT !.phase = "together", !.alone = results,
                                        !.parked = Task(other.id, other)]
          /\ stack' = <<>>
          /\ ctl' = Accepted(running.body)
    /\ UNCHANGED filter

NextTasks ==
    \/ TaskAccept
    \/ TaskSwitch
    \/ TaskRestart
    \/ ReadyFilterExecute
    \/ ParamStrExecute
    \/ TakeBodyExecute
    \/ TakeBodyPoll
    \/ OrExecute
    \/ OrPollFirst
    \/ OrPollSecond
    \/ AndExecute
    \/ AndPollFirst
    \/ AndPollSecond
    \/ HandleExecute
    \/ HandlePollFilter
    \/ HandlePollFunc
    \/ RecoverExecute
    \/ RecoverPollFilter
    \/ RecoverPollFunc

SpecTasks == InitTasks /\ [][NextTasks]_vars

(***************************************************************************)
(* The main specification with its scheduling: the executor polls the      *)
(* future of a request again whenever it can make progress, and leaf steps *)
(* and the futures of handler and recovery functions complete.             *)
(***************************************************************************)
\* The chains of the main specification, on the paths of up to three bytes.
InitLive ==
    /\ filter \in Filters
    /\ request \in {r \in Requests : Len(r.path) <= 3}
    /\ stack = <<>>
    /\ ctl \in {Execute(filter, NewRequestState, input) : input \in Inputs(InputArity(filter))}

SpecLive == InitLive /\ [][Next]_vars /\ WF_vars(Next)

(***************************************************************************)
(* Origin checking (security/origin.rs).  A header value is a sequence of  *)
(* characters; a HeaderMap is a sequence of <<name, value>> entries.       *)
(***************************************************************************)
FORBIDDEN == 403
NO_CONTENT == 204
BAD_REQUEST == 400

\* HeaderMap::get_all
get_all(headers, name) ==
    LET at == {i \in 1..Len(headers) : headers[i][1] = name}
    IN [k \in 1..Cardinality(at) |->
          headers[CHOOSE i \in at : Cardinality({j \in at : j <= i}) = k][2]]

RECURSIVE without(_, _)
without(headers, name) ==
    IF headers = <<>> THEN <<>>
    ELSE (IF Head(headers)[1] = name THEN <<>> ELSE <<Head(headers)>>)
            \o without(Tail(headers), name)

\* HeaderMap::insert: the values the name had are removed.
headers_insert(headers, name, value) == Append(without(headers, name), <<name, value>>)

\* HeaderMap::append: the value is added to those the name has.
headers_append(headers, name, value) == Append(headers, <<name, value>>)

\* response.headers() and *response.headers_mut() = headers
headers_of(response) == IF "headers" \in DOMAIN response THEN response.headers ELSE <<>>
set_headers(response, headers) == ("headers" :> headers) @@ response

\* Mutant: Vary: Origin is added twice.
vary_origin_Twice(response) ==
    set_headers(response,
        headers_append(headers_append(headers_of(response), "vary", "origin"),
                       "vary", "origin"))

\* vary_origin, applied to the headers of a response
vary_origin(response) ==
    set_headers(response, headers_append(headers_of(response), "vary", "origin"))

\* Config and Cors::new
Config(origins, methods, allow_headers, expose_headers, credentials) ==
    [origins |-> origins, methods |-> methods, allow_headers |-> allow_headers,
     expose_headers |-> expose_headers, credentials |-> credentials]

Cors(config, t) == [op |-> "Cors", config |-> config, filter |-> t]

RECURSIVE join_to_header_value(_)
join_to_header_value(values) ==
    IF Len(values) = 1 THEN <<values[1]>>
    ELSE <<values[1], ", ">> \o join_to_header_value(Tail(values))

\* Config::expose_headers
expose_headers(config) ==
    IF config.expose_headers = <<>> THEN None
    ELSE Some(join_to_header_value(config.expose_headers))

\* Config::preflight_headers
preflight_headers(config) ==
    LET h1 == IF config.origins.some
              THEN headers_insert(<<>>, "vary",
                    "Origin, Access-Control-Request-Method, Access-Control-Request-Headers")
              ELSE headers_insert(
                     headers_insert(<<>>, "access-control-allow-origin", "*"),
                     "vary", "Access-Control-Request-Method, Access-Control-Request-Headers")
        h2 == headers_insert(h1, "access-control-allow-methods",
                             join_to_header_value(config.methods))
        h3 == IF config.allow_headers # <<>>
              THEN headers_insert(h2, "access-control-allow-headers",
                                  join_to_header_value(config.allow_headers))
              ELSE h2
        h4 == IF expose_headers(config).some
              THEN headers_insert(h3, "access-control-expose-headers",
                                  expose_headers(config).value)
              ELSE h3
    IN IF config.credentials
       THEN headers_insert(h4, "access-control-allow-credentials", "true")
       ELSE h4

\* Cors::check_origin
check_origin(self, origin) ==
    IF self.origins.some
    THEN IF \E i \in 1..Len(self.origins.value) : self.origins.value[i] = origin
         THEN "Allowed" ELSE "Disallowed"
    ELSE "Any"

\* Request::header_all
header_all(req, name) == req.all[name]

\* str::split(',')
RECURSIVE split(_, _, _)
split(value, sep, piece) ==
    IF value = <<>> THEN <<piece>>
    ELSE IF Head(value) = sep THEN <<piece>> \o split(Tail(value), sep, <<>>)
    ELSE split(Tail(value), sep, Append(piece, Head(value)))

Blank(c) == c \in {" ", "\t"}

\* StrExt::trim_spaces_tabs
RECURSIVE trim_spaces_tabs(_)
trim_spaces_tabs(self) ==
    IF self = <<>> THEN self
    ELSE IF Blank(Head(self)) THEN trim_spaces_tabs(Tail(self))
    ELSE IF Blank(self[Len(self)]) THEN trim_spaces_tabs(SubSeq(self, 1, Len(self) - 1))
    ELSE self

\* str::split_whitespace
RECURSIVE split_whitespace(_, _)
split_whitespace(value, piece) ==
    IF value = <<>> THEN (IF piece = <<>> THEN <<>> ELSE <<piece>>)
    ELSE IF Blank(Head(value))
         THEN (IF piece = <<>> THEN <<>> ELSE <<piece>>) \o split_whitespace(Tail(value), <<>>)
    ELSE split_whitespace(Tail(value), Append(piece, Head(value)))

to_ascii_lowercase(c) == IF c = "A" THEN "a" ELSE IF c = "B" THEN "b" ELSE c

\* impl PartialEq<str> for HeaderName
eq_ignore_ascii_case(name, other) ==
    /\ Len(name) = Len(other)
    /\ \A i \in 1..Len(name) : to_ascii_lowercase(name[i]) = to_ascii_lowercase(other[i])

\* self.allow_headers.iter().any(|header| header == request_header)
allow_headers_any(self, request_header) ==
    \E i \in 1..Len(self.allow_headers) :
        eq_ignore_ascii_case(self.allow_headers[i], request_header)

\* The two loops of preflight_impl over one Access-Control-Request-Headers value.
request_headers_allowed(self, value) ==
    /\ \A i \in 1..Len(split(value, ",", <<>>)) :
            allow_headers_any(self, trim_spaces_tabs(split(value, ",", <<>>)[i]))
    /\ \A i \in 1..Len(split_whitespace(value, <<>>)) :
            allow_headers_any(self, split_whitespace(value, <<>>)[i])

\* Cors::preflight_impl: the headers it leaves and the Result it returns.
preflight_impl(self, headers, req, origin) ==
    LET checked == check_origin(self, origin)
        headers1 == IF checked = "Allowed"
                    THEN headers_append(headers, "access-control-allow-origin", origin)
                    ELSE headers
        request_method == header(req, "access-control-request-method")
        values == header_all(req, "access-control-request-headers")
    IN IF checked = "Disallowed" THEN [headers |-> headers, result |-> Err(FORBIDDEN)]
       ELSE IF ~request_method.some THEN [headers |-> headers1, result |-> Err(BAD_REQUEST)]
       ELSE IF ~\E i \in 1..Len(self.methods) : request_method.value = self.methods[i]
            THEN [headers |-> headers1, result |-> Err(FORBIDDEN)]
       ELSE IF \E i \in 1..Len(values) : ~request_headers_allowed(self, values[i])
            THEN [headers |-> headers1, result |-> Err(FORBIDDEN)]
       ELSE [headers |-> headers1, result |-> Ok(<<>>)]

\* Cors::preflight
preflight(self, req, origin) ==
    LET done == preflight_impl(self, preflight_headers(self), req, origin)
        status == IF done.result.tag = "Err" THEN done.result.err ELSE NO_CONTENT
    IN set_headers([status |-> status, location |-> None], done.headers)

\* forbidden!()
forbidden == vary_origin(default_response(FORBIDDEN))

\* Cors::execute
CorsExecute ==
    /\ Executing({"Cors"})
    /\ LET self == ctl.filter.config
           origin == header(request, "origin")
           hist == NewHist(ctl.filter, ctl.request_state, ctl.input)
           wrapped(state, value, vary) ==
                [op |-> "Cors", state |-> state, origin |-> value, vary |-> vary,
                 expose_headers |-> expose_headers(self),
                 credentials |-> self.credentials, hist |-> hist]
           run(frame) ==
                /\ stack' = Append(stack, Called(frame, "filter", ctl.request_state, ctl.input))
                /\ ctl' = Execute(ctl.filter.filter, ctl.request_state, ctl.input)
           answer(response) ==
                /\ stack' = stack
                /\ ctl' = Ready(ctl.request_state, Success(<<response>>), hist)
       IN IF ~origin.some THEN run(wrapped("VaryOrigin", "", FALSE))
          ELSE IF request.method = "OPTIONS"
               THEN answer(preflight(self, request, origin.value))
          ELSE IF check_origin(self, origin.value) = "Disallowed" THEN answer(forbidden)
          ELSE IF \E i \in 1..Len(self.methods) : self.methods[i] = request.method
               THEN IF check_origin(self, origin.value) = "Allowed"
                    THEN run(wrapped("ApplyHeaders", origin.value, TRUE))
                    ELSE run(wrapped("ApplyHeaders", "*", FALSE))
          ELSE answer(forbidden)
    /\ UNCHANGED <<request, filter>>

\* ApplyHeaders::poll, on Success((responder,))
apply_headers(self, responder) ==
    LET r1 == set_headers(responder_into_response(responder),
                  headers_insert(<<>>, "access-control-allow-origin", self.origin))
        r2 == IF self.expose_headers.some
              THEN set_headers(r1, headers_insert(headers_of(r1),
                        "access-control-expose-headers", self.expose_headers.value))
              ELSE r1
        r3 == IF self.credentials
              THEN set_headers(r2, headers_insert(headers_of(r2),
                        "access-control-allow-credentials", "true"))
              ELSE r2
    IN IF self.vary THEN vary_origin(r3) ELSE r3

\* ApplyHeaders::poll and VaryOrigin::poll
CorsPoll ==
    /\ \/ PollingChild("Cors", "ApplyHeaders")
       \/ PollingChild("Cors", "VaryOrigin")
    /\ LET frame == Returned(Top, ChildOut)
       IN /\ stack' = Pop
          /\ ctl' = Ready(ctl.request_state,
                          IF ctl.outcome.tag = "Success"
                          THEN Success(<<IF Top.state = "ApplyHeaders"
                                         THEN apply_headers(Top, ctl.outcome.success[1])
                                         ELSE vary_origin(responder_into_response(
                                                    ctl.outcome.success[1]))>>)
                          ELSE ctl.outcome,
                          frame.hist)
    /\ UNCHANGED <<request, filter>>

(***************************************************************************)
(* A specification of origin checking: one Cors around a handler, and      *)
(* requests with and without Origin and the preflight headers.             *)
(***************************************************************************)
MaxValueLen == 4

ValueChars == {"a", "A", "b", ",", " "}

RECURSIVE Values(_)
Values(n) ==
    IF n = 0 THEN {<<>>}
    ELSE Values(n - 1) \cup
         {Append(v, c) : v \in {w \in Values(n - 1) : Len(w) = n - 1}, c \in ValueChars}

\* The values of Access-Control-Request-Headers a request carries.
RequestHeaderLists ==
    {<<>>} \cup {<<v>> : v \in Values(MaxValueLen)}
           \cup {<<v, w>> : v \in Values(1), w \in Values(1)}

Configs ==
    {Config(origins, methods, allow_headers, exposed, credentials) :
        origins \in {None, Some(<<"o1">>)},
        methods \in {<<"GET", "POST">>},
        allow_headers \in {<<>>, <<<<"a">>>>, <<<<"a">>, <<"b">>>>},
        exposed \in {<<>>},
        credentials \in {FALSE}}
      \cup {Config(Some(<<"o1", "o3">>), <<"GET">>, <<<<"a">>>>, <<"x-e", "x-f">>, TRUE)}

CorsFilters ==
    {Cors(config, t) : config \in Configs,
                       t \in {Handle(AnyF, FnAny), Handle(Method("GET"), FnOk)}}

RequestOrigins == {None, Some("o1"), Some("o2")}

CorsRequest(method, origin, request_method, request_headers) ==
    [path |-> <<SLASH>>, method |-> method,
     headers |-> [n \in {"origin", "access-control-request-method"} |->
                    IF n = "origin" THEN origin ELSE request_method],
     all |-> [n \in {"access-control-request-headers"} |-> request_headers]]

InitCors ==
    /\ filter \in CorsFilters
    /\ \E origin \in RequestOrigins :
        \/ \E method \in {"GET", "POST", "DELETE"} :
                request = CorsRequest(method, origin, None, <<>>)
        \/ \E request_method \in {None, Some("POST"), Some("DELETE")} :
           \E request_headers \in RequestHeaderLists :
                request = CorsRequest("OPTIONS", origin, request_method, request_headers)
    /\ stack = <<>>
    /\ ctl = Execute(filter, NewRequestState, <<>>)

NextCors ==
    \/ CorsExecute
    \/ CorsPoll
    \/ ReadyFilterExecute
    \/ HandleExecute
    \/ HandlePollFilter
    \/ HandlePollFunc

SpecCors == InitCors /\ [][NextCors]_vars

(***************************************************************************)
(* A specification of routing by method: Or chains of at most MaxBranches  *)
(* branches, each a method filter or a path filter, grouped in every way.  *)
(***************************************************************************)
MaxBranches == 3

Put == Method("PUT")

MethodBranches == {Get, Post, Put, LitA, End}

RECURSIVE Branches(_)
Branches(f) == IF f.op = "Or" THEN Branches(f.first) + Branches(f.second) ELSE 1

RECURSIVE OrTrees(_)
OrTrees(n) ==
    IF n = 1 THEN MethodBranches
    ELSE OrTrees(n - 1) \cup
         {Or(a, b) : <<a, b>> \in {t \in OrTrees(n - 1) \X OrTrees(n - 1) :
                                        Branches(t[1]) + Branches(t[2]) <= n}}

InitMethods ==
    /\ filter \in OrTrees(MaxBranches)
    /\ request \in [path : {<<>>, <<SLASH, 97>>, <<SLASH, 98>>},
                    method : {"GET", "POST", "PUT", "DELETE"}]
    /\ stack = <<>>
    /\ ctl = Execute(filter, NewRequestState, <<>>)

NextMethods ==
    \/ ReadyFilterExecute
    \/ OrExecute
    \/ OrPollFirst
    \/ OrPollSecond

SpecMethods == InitMethods /\ [][NextMethods]_vars

(***************************************************************************)
(* A specification of the whole RequestState: chains that read the body,   *)
(* match the path and recover, evaluated with a RequestState that holds a  *)
(* body stream, the path cursor and the pending upgrade.                   *)
(***************************************************************************)
\* RequestState::new
RequestStateWith(body, on_upgrade) ==
    [body |-> BodyPending(body, <<>>, 0), current_path_index |-> 0,
     on_upgrade |-> on_upgrade]

LitB == Literal(<<98>>)

\* A recovery function that forwards.
FnNotFound == [name |-> "forwarding", results |-> {Ok(NotFound)}]

\* A handler that answers with a value list of its own.
FnTupled == [name |-> "handler", results |-> {Ok(<<Val("v")>>), Err(E1)}]

\* Alternatives whose first branch has read the body, moved the cursor, or
\* both, before it forwards.
StateOrChains ==
    {Or(x, y) : x \in {And(TakeBody, LitA), And(LitA, TakeBody),
                       And(And(LitA, TakeBody), End), And(TakeBody, Get),
                       RecoverForward(TakeBody, FnNotFound, "body::Error")},
                y \in {TakeBody, And(LitA, TakeBody), And(TakeBody, LitB),
                       And(TakeBody, Post), ParamStr}}

StateChains ==
    {And(x, y) : x \in {LitA, TakeBody, And(LitA, TakeBody), ParamStr},
                 y \in {LitA, End, TakeBody, Post, ParamStr, TailF}}
      \cup {Then(a, b, 0) : a \in {TakeBody, And(LitA, TakeBody)},
                            b \in {Receive(LitA, 1), Receive(End, 1),
                                   Handle(Receive(TakeBody, 1), FnAny)}}
      \cup {Handle(x, FnAny) : x \in {TakeBody, And(LitA, TakeBody), And(TakeBody, LitA)}}
      \cup {Untuple(Handle(x, FnTupled)) : x \in {And(LitA, TakeBody), And(TakeBody, LitA)}}
      \cup {content_length_limit(5), And(LitA, And(content_length_limit(5), LitA))}
      \cup {RecoverForward(Handle(x, FnAny), FnForward, e) :
                x \in {And(LitA, TakeBody), And(TakeBody, LitA)}, e \in {"E1", "body::Error"}}
      \cup {Recover(Handle(x, FnAny), FnRecover, e) :
                x \in {And(LitA, TakeBody), And(TakeBody, LitA)}, e \in {"E1", "body::Error"}}
      \cup {And(Recover(TakeBody, FnRecovered, "body::Error"), TakeBody),
            And(And(TakeBody, LitA), TakeBody)}

StateReceives == {Receive(x, 1) : x \in {TakeBody, And(LitA, TakeBody), And(TakeBody, End)}}

StateBodies ==
    {<<>>, <<Data(<<97>>)>>, <<StreamPending, Data(<<98, 97>>)>>, <<Data(<<97>>), StreamErr>>,
     <<Data(<<>>), Data(<<97>>), StreamPending, Data(<<98, 97>>)>>, <<StreamErr>>}

StateRequests ==
    {[path |-> t[1], method |-> t[2], headers |-> Headers(Some(<<49, 48>>), None)] :
        t \in {<<<<SLASH, 97>>, "GET">>, <<<<SLASH, 97>>, "POST">>, <<<<SLASH, 98>>, "GET">>,
               <<<<SLASH, 97, SLASH, 97>>, "GET">>, <<<<SLASH>>, "POST">>}}

InitState ==
    /\ request \in StateRequests
    /\ stack = <<>>
    /\ \E body \in StateBodies : \E on_upgrade \in {None, Some("upgrade")} :
        \/ /\ filter \in StateOrChains \cup StateChains
           /\ ctl = Execute(filter, RequestStateWith(body, on_upgrade), <<>>)
        \/ /\ filter \in StateReceives
           /\ \E input \in Inputs(1) :
                ctl = Execute(filter, RequestStateWith(body, on_upgrade), input)

NextState ==
    \/ Next
    \/ HeaderValueExecute
    \/ TakeBodyExecute
    \/ TakeBodyPoll
    \/ UntupleExecute
    \/ UntuplePoll

SpecState == InitState /\ [][NextState]_vars

(***************************************************************************)
(* A specification of the path cursor: compositions of the path steps on   *)
(* paths of '/', 'a', '1' and '.', the asterisk-form path and two paths    *)
(* with percent escapes.                                                   *)
(***************************************************************************)
CursorBytes == {SLASH, 97, 49, 46}

CursorPaths ==
    {p \in UNION {[1..n -> CursorBytes] : n \in 0..MaxPathLen} : p = <<>> \/ p[1] = SLASH}
      \cup {<<42>>,                                  \* *
            <<SLASH, 37, 50, 70, SLASH, 97>>,        \* /%2F/a
            <<SLASH, 97, 37, 50, 70, 49>>}           \* /a%2F1

PathSteps == {LitA, End, ParamStr, param(8), TailF, TailPath}

StepPairs == {And(x, y) : x \in PathSteps, y \in PathSteps}

StepTriples ==
    {And(And(x, y), z) : x \in {LitA, ParamStr, param(8)}, y \in PathSteps,
                         z \in {LitA, End, TailPath}}

\* Alternatives of two steps each, with one value.
StepBranches ==
    {And(LitA, ParamStr), And(ParamStr, End), And(param(8), LitA), And(LitA, TailPath),
     And(TailF, End)}

CursorFilters ==
    PathSteps \cup StepPairs \cup StepTriples
      \cup {Or(a, b) : a \in StepBranches, b \in StepBranches}
      \cup {And(LitA, Or(a, b)) : a \in StepBranches, b \in {And(ParamStr, LitA)}}
      \cup {Then(x, Receive(y, 1), 0) : x \in {ParamStr, param(8), TailF, TailPath},
                                        y \in {LitA, End, TailPath}}
      \cup {Handle(t, FnAny) : t \in StepBranches}
      \cup {Recover(Handle(t, FnAny), FnRecover, "E1") : t \in StepBranches}
      \cup {And(LitA, Recover(Handle(t, FnAny), FnRecover, "E1")) : t \in StepBranches}

InitCursor ==
    /\ filter \in CursorFilters
    /\ request \in [path : CursorPaths, method : {"GET"}]
    /\ stack = <<>>
    /\ ctl = Execute(filter, NewRequestState, <<>>)

SpecCursor == InitCursor /\ [][Next]_vars

(***************************************************************************)
(* A specification of repeated body reads with their scheduling: the body  *)
(* is read more than once in a chain, also in the second branch of an Or   *)
(* and behind a recovery, on every stream of at most MaxStream answers.    *)
(* hyper wakes the task when the stream can answer again, so a future that *)
(* returned Pending is polled again.                                       *)
(***************************************************************************)
RereadFilters ==
    {And(TakeBody, TakeBody),
     And(And(TakeBody, LitA), TakeBody),
     Or(And(TakeBody, LitA), TakeBody),
     Or(And(And(TakeBody, TakeBody), LitA), And(TakeBody, TakeBody)),
     And(Recover(TakeBody, FnRecovered, "body::Error"), TakeBody),
     Or(And(Recover(TakeBody, FnRecovered, "body::Error"), LitA), TakeBody)}

InitReread ==
    /\ filter \in RereadFilters
    /\ request \in [path : {<<SLASH>>, <<SLASH, 97>>}, method : {"POST"}]
    /\ stack = <<>>
    /\ \E body \in Streams(MaxStream) : ctl = Execute(filter, RequestStateNew(body), <<>>)

NextReread ==
    \/ ReadyFilterExecute
    \/ TakeBodyExecute
    \/ TakeBodyPoll
    \/ AndExecute
    \/ AndPollFirst
    \/ AndPollSecond
    \/ OrExecute
    \/ OrPollFirst
    \/ OrPollSecond
    \/ RecoverExecute
    \/ RecoverPollFilter
    \/ RecoverPollFunc

SpecReread == InitReread /\ [][NextReread]_vars /\ WF_vars(NextReread)

(***************************************************************************)
(* A specification of the body from the stream to the reader: body::all()  *)
(* on every stream of at most MaxStream answers, then any sequence of read *)
(* and advance calls, with sizes up to MaxBuf, on the buffer it returned.  *)
(***************************************************************************)
InitAccumulate ==
    /\ filter = TakeBody
    /\ request = [path |-> <<SLASH>>, method |-> "POST"]
    /\ stack = <<>>
    /\ \E body \in Streams(MaxStream) : ctl = Execute(filter, RequestStateNew(body), <<>>)

\* The buffer of the Success goes to the code that reads it.
BufferReceived ==
    /\ ctl.kind = "ready"
    /\ stack = <<>>
    /\ ctl.outcome.tag = "Success"
    /\ LET buffer == ctl.outcome.success[1]
       IN ctl' = [Reading(buffer.bytes) EXCEPT !.reader = buffer]
    /\ UNCHANGED <<request, filter, stack>>

NextAccumulate ==
    \/ TakeBodyExecute
    \/ TakeBodyPoll
    \/ BufferReceived
    \/ BufRead
    \/ BufAdvance

SpecAccumulate == InitAccumulate /\ [][NextAccumulate]_vars

\* The evaluation is over: the top-level future has returned.
Done == ctl.kind = "ready" /\ stack = <<>>

(***************************************************************************)
(* Properties.  Hists is every history in sight: one per live future, and  *)
(* the one of the future that has just returned.                           *)
(***************************************************************************)
Hists ==
    {stack[i].hist : i \in 1..Len(stack)} \cup (IF ctl.kind = "ready" THEN {ctl.by} ELSE {})

Cursor(request_state) == request_state.current_path_index

\* The future with history h has just returned (ctl holds its RequestOutcome).
Returns(h) == ctl.kind = "ready" /\ ctl.by = h

FirstForwarded(h) == Len(h.results) >= 1 /\ h.results[1].outcome.tag = "Forward"

\* C1: in every Or, once first has returned Forward, second is executed, and
\* with the path cursor Or was entered with, whatever first consumed.
C1_OrBacktracks ==
    \A h \in Hists :
        (h.filter.op = "Or" /\ FirstForwarded(h)) =>
            /\ Len(h.calls) = 2
            /\ h.calls[2].who = "second"
            /\ Cursor(h.calls[2].request_state) = Cursor(h.request_state)

\* An Or entered past the start of the path whose first consumed path and forwarded.
C1_Witness ==
    \E h \in Hists :
        /\ h.filter.op = "Or" /\ FirstForwarded(h)
        /\ Cursor(h.request_state) > 0
        /\ Cursor(h.results[1].request_state) > Cursor(h.request_state)
        /\ Len(h.calls) = 2

BothForwarded(h) ==
    /\ Len(h.results) = 2
    /\ h.results[1].outcome.tag = "Forward"
    /\ h.results[2].outcome.tag = "Forward"

\* C2: when both branches of an Or forward, Or returns Forward with the two
\* reasons combined (first's on the left) and the cursor of Or's entry.
C2_OrBothForward ==
    \A h \in Hists :
        (h.filter.op = "Or" /\ BothForwarded(h) /\ Returns(h)) =>
            /\ ctl.outcome.tag = "Forward"
            /\ ctl.outcome.forwarding = combine(h.results[1].outcome.forwarding,
                                                h.results[2].outcome.forwarding)
            /\ Cursor(ctl.request_state) = Cursor(h.request_state)

\* Both branches forwarded, second after consuming path, one with MethodNotAllowed.
C2_Witness ==
    \E h \in Hists :
        /\ h.filter.op = "Or" /\ BothForwarded(h) /\ Returns(h)
        /\ Cursor(h.results[2].request_state) > Cursor(h.request_state)
        /\ h.results[1].outcome.forwarding.tag = "NotFound"
        /\ h.results[2].outcome.forwarding.tag = "MethodNotAllowed"

FirstFinal(h) ==
    Len(h.results) >= 1 /\ h.results[1].outcome.tag \in {"Success", "Error"}

\* C3: when first returns Success or Error, Or returns exactly what first
\* returned and second is never executed.
C3_OrPassesThrough ==
    \A h \in Hists :
        (h.filter.op = "Or" /\ FirstFinal(h)) =>
            /\ Len(h.calls) = 1
            /\ Returns(h)
            /\ ctl.outcome = h.results[1].outcome
            /\ ctl.request_state = h.results[1].request_state

\* An Or whose first failed with an Error.
C3_Witness ==
    \E h \in Hists :
        /\ h.filter.op = "Or" /\ FirstFinal(h) /\ Returns(h)
        /\ h.results[1].outcome.tag = "Error"
        /\ h.results[1].outcome.error.type = "E1"

\* literal(L).and(end())
TrailingSlashChain(f) == f.op = "And" /\ f.first.op = "Literal" /\ f.second = End

\* The chain is evaluated from the start of the path "/L/".
OnSlashPath(h, f) ==
    /\ Cursor(h.request_state) = 0
    /\ request.path = <<SLASH>> \o f.first.value \o <<SLASH>>

RedirectTo(location) ==
    /\ ctl.outcome.tag = "Error"
    /\ ctl.outcome.error.type = "Redirect"
    /\ ctl.outcome.error.location = location
    /\ error_into_response(ctl.outcome.error).status = PERMANENT_REDIRECT
    /\ error_into_response(ctl.outcome.error).location = Some(location)

\* Percent-decoding leaves the literal as it is written.
Unescaped(l) == decode_utf8_lossy(percent_decode_str(l)) = l

SlashRedirect(h, lits) ==
    /\ (/\ TrailingSlashChain(h.filter)
        /\ h.filter.first.value \in lits
        /\ OnSlashPath(h, h.filter)
        /\ Returns(h)) =>
          RedirectTo(SubSeq(request.path, 1, Len(request.path) - 1))
    /\ (/\ h.filter.op = "Or"
        /\ TrailingSlashChain(h.filter.first)
        /\ h.filter.first.first.value \in lits
        /\ OnSlashPath(h, h.filter.first)
        /\ Len(h.results) >= 1) =>
          /\ Returns(h)
          /\ Len(h.calls) = 1
          /\ RedirectTo(<<SLASH>> \o h.filter.first.first.value)

\* C4 as claimed: for any literal L, literal(L).and(end()) on "/L/" returns
\* Error(Redirect) to the path without its final slash (a 308 with that
\* Location); as the first branch of an Or, the Or returns that Error and
\* never executes second.
C4_AnyLiteral ==
    \A h \in Hists : SlashRedirect(h, EscapedLiterals)

\* C4 as amended: the same, for any literal L that percent-decoding leaves
\* unchanged (L holds no '%' followed by two hex digits).
C4_TrailingSlashRedirects ==
    \A h \in Hists : SlashRedirect(h, {l \in EscapedLiterals : Unescaped(l)})

\* An Or whose first branch literal("%4").and(end()) met "/%4/" has returned.
C4_Witness ==
    \E h \in Hists :
        /\ h.filter.op = "Or"
        /\ TrailingSlashChain(h.filter.first)
        /\ OnSlashPath(h, h.filter.first)
        /\ h.filter.first.first.value = <<37, 52>>
        /\ Returns(h)

ForwardingCombinators == {"And", "Or", "Handle", "Then", "Receive", "Recover"}

\* C5: whenever And, Or, Handle, Then, Receive or Recover returns Forward,
\* the input it carries is the input the combinator was executed with.
C5_ForwardIdentity ==
    \A h \in Hists :
        (h.filter.op \in ForwardingCombinators /\ Returns(h) /\ ctl.outcome.tag = "Forward") =>
            ctl.outcome.input = h.input

\* A Receive over two injected values forwarded because its inner filter did.
C5_Witness ==
    \E h \in Hists :
        /\ h.filter.op = "Receive" /\ Returns(h) /\ ctl.outcome.tag = "Forward"
        /\ Len(h.input) = 2
        /\ h.input[1] # h.input[2]

FirstSucceeded(h) == Len(h.results) >= 1 /\ h.results[1].outcome.tag = "Success"

\* C6: And executes first with unit input and the state And was entered
\* with; after Success(a) it executes second with And's input and the state
\* first returned; after Success(b) it returns Success(a ++ b).
C6_AndComposes ==
    \A h \in Hists :
        h.filter.op = "And" =>
            /\ h.calls[1] = [who |-> "first", request_state |-> h.request_state, input |-> <<>>]
            /\ FirstSucceeded(h) =>
                  /\ Len(h.calls) = 2
                  /\ h.calls[2] = [who |-> "second",
                                   request_state |-> h.results[1].request_state,
                                   input |-> h.input]
            /\ (Returns(h) /\ Len(h.results) = 2 /\ h.results[2].outcome.tag = "Success") =>
                  ctl.outcome = Success(h.results[1].outcome.success
                                          \o h.results[2].outcome.success)

\* An And with input returned the values of first followed by those of second.
C6_Witness ==
    \E h \in Hists :
        /\ h.filter.op = "And" /\ Returns(h) /\ Len(h.results) = 2
        /\ h.input # <<>>
        /\ h.results[1].outcome.tag = "Success" /\ h.results[1].outcome.success # <<>>
        /\ h.results[2].outcome.tag = "Success" /\ Len(h.results[2].outcome.success) = 2
        /\ Cursor(h.results[1].request_state) > 0

\* C7: when first returns Error, And returns that Error; when first returns
\* Forward, And returns Forward with first's reason and And's own input; in
\* both cases second is never executed.
C7_AndShortCircuits ==
    \A h \in Hists :
        (h.filter.op = "And" /\ Len(h.results) >= 1) =>
            /\ h.results[1].outcome.tag = "Error" =>
                  Returns(h) /\ Len(h.calls) = 1 /\ ctl.outcome = h.results[1].outcome
            /\ h.results[1].outcome.tag = "Forward" =>
                  /\ Returns(h) /\ Len(h.calls) = 1
                  /\ ctl.outcome = Forward(h.input, h.results[1].outcome.forwarding)

\* An And with input whose first forwarded MethodNotAllowed.
C7_Witness ==
    \E h \in Hists :
        /\ h.filter.op = "And" /\ Returns(h) /\ Len(h.results) = 1
        /\ h.input # <<>>
        /\ h.results[1].outcome.tag = "Forward"
        /\ h.results[1].outcome.forwarding.tag = "MethodNotAllowed"

FuncCalls(h) == {i \in 1..Len(h.calls) : h.calls[i].who = "func"}

\* C8: Handle invokes func once, with filter's values, exactly when filter
\* returned Success; Ok(v) gives Success((v,)), Err(e) gives Error(e); an
\* Error or Forward of filter is returned as it is, func not invoked; the
\* RequestState returned is the one filter returned.
C8_HandleInvokes ==
    \A h \in Hists :
        (h.filter.op = "Handle" /\ Len(h.results) >= 1) =>
            /\ Cardinality(FuncCalls(h)) = (IF FirstSucceeded(h) THEN 1 ELSE 0)
            /\ FirstSucceeded(h) => h.calls[2].input = h.results[1].outcome.success
            /\ Returns(h) =>
                  /\ ctl.request_state = h.results[1].request_state
                  /\ ~FirstSucceeded(h) => ctl.outcome = h.results[1].outcome
                  /\ FirstSucceeded(h) =>
                        /\ Len(h.results) = 2
                        /\ h.results[2].tag = "Ok" =>
                              ctl.outcome = Success(<<h.results[2].ok>>)
                        /\ h.results[2].tag = "Err" =>
                              ctl.outcome = Error(h.results[2].err)

\* A Handle whose filter consumed path and whose function then failed.
C8_Witness ==
    \E h \in Hists :
        /\ h.filter.op = "Handle" /\ Returns(h) /\ Len(h.results) = 2
        /\ h.results[1].outcome.success # <<>>
        /\ Cursor(h.results[1].request_state) > 0
        /\ h.results[2].tag = "Err"

\* C9: Then executes first with unit input; after Success(a) it executes
\* second with R ++ a; its Success is second's Success; whenever it returns
\* Forward, the input carried is R.
C9_ThenPrepends ==
    \A h \in Hists :
        h.filter.op = "Then" =>
            /\ h.calls[1].who = "first" /\ h.calls[1].input = <<>>
            /\ FirstSucceeded(h) =>
                  /\ Len(h.calls) = 2
                  /\ h.calls[2].who = "second"
                  /\ h.calls[2].input = h.input \o h.results[1].outcome.success
            /\ (Returns(h) /\ ctl.outcome.tag = "Success") =>
                  Len(h.results) = 2 /\ ctl.outcome = h.results[2].outcome
            /\ (Returns(h) /\ ctl.outcome.tag = "Forward") => ctl.outcome.input = h.input

\* A Then with R of two values forwarded because second did, after first's Success(a).
C9_Witness ==
    \E h \in Hists :
        /\ h.filter.op = "Then" /\ Returns(h) /\ ctl.outcome.tag = "Forward"
        /\ Len(h.input) = 2 /\ h.input[1] # h.input[2]
        /\ Len(h.results) = 2
        /\ h.results[1].outcome.success # <<>>

FirstFailed(h) == Len(h.results) >= 1 /\ h.results[1].outcome.tag = "Error"

RecoversExactly(h) ==
    /\ FuncCalls(h) # {} <=>
          (FirstFailed(h) /\ h.results[1].outcome.error.type = h.filter.E)
    /\ FuncCalls(h) # {} => h.calls[2].input = <<h.results[1].outcome.error>>
    /\ (FirstFailed(h) /\ h.results[1].outcome.error.type # h.filter.E) =>
          /\ Returns(h)
          /\ ctl.outcome = h.results[1].outcome
          /\ ctl.request_state = h.results[1].request_state

\* C10 as claimed: every Recover<E> invokes its function only for an Error
\* whose type is exactly E, and returns any other Error as it is.
C10_AnyRecoverable ==
    \A h \in Hists :
        (h.filter.op = "Recover" /\ Len(h.results) >= 1) => RecoversExactly(h)

\* C10 as amended: a Recover<E> for a concrete error type E (not the boxed
\* envelope) invokes its function exactly for an Error whose type is E, and
\* with that error; any other Error is returned as it is, with the state it
\* came with, so that an outer Recover can intercept it.
C10_RecoverExact ==
    \A h \in Hists :
        (h.filter.op = "Recover" /\ h.filter.E # Boxed /\ Len(h.results) >= 1) =>
            RecoversExactly(h)

\* Recover<E1>(Recover<E2>(f)): the E1 error f raised went through the inner
\* recovery, and the outer one has invoked its function with it.
C10_Witness ==
    \E h \in Hists :
        /\ h.filter.op = "Recover" /\ h.filter.E = "E1"
        /\ h.filter.filter.op = "Recover" /\ h.filter.filter.E = "E2"
        /\ FirstFailed(h) /\ h.results[1].outcome.error = E1
        /\ FuncCalls(h) # {}

\* C11: whenever a Recover returns Success, from the inner filter directly or
\* from the recovery function's Ok, the cursor it returns is the cursor it
\* was entered with.
C11_RecoverRestoresCursor ==
    \A h \in Hists :
        (h.filter.op = "Recover" /\ Returns(h) /\ ctl.outcome.tag = "Success") =>
            Cursor(ctl.request_state) = Cursor(h.request_state)

\* A Recover entered with a moved cursor returns Success after its inner
\* filter moved the cursor further.
C11_Witness ==
    \E h \in Hists :
        /\ h.filter.op = "Recover"
        /\ Returns(h)
        /\ ctl.outcome.tag = "Success"
        /\ Cursor(h.request_state) > 0
        /\ Cursor(h.results[1].request_state) > Cursor(h.request_state)

\* What Recover<E>, entered as the RecoverForward with history h was, does
\* with the same output of the same inner filter.
AsRecover(h) == RecoverFilter(h.filter.E, Cursor(h.request_state), h.results[1])

\* The outcomes agree: the same outcome where nothing is recovered, and on a
\* matched Error the function is called with that error and its Ok becomes
\* Forward{reason} where Recover returns Success(value).
SameOutcomeAsRecover(h) ==
    LET rec == AsRecover(h)
    IN IF rec.then = "return"
       THEN Len(h.results) = 1 /\ ctl.outcome = rec.outcome
       ELSE /\ Len(h.results) = 2
            /\ h.calls[2].input = <<rec.error>>
            /\ LET result == h.results[2]
                   func == RecoverFunc(Cursor(h.request_state), rec.request_state, result)
               IN IF result.tag = "Ok"
                  THEN /\ ctl.outcome = Forward(<<>>, result.ok)
                       /\ func.outcome = Success(<<result.ok>>)
                  ELSE ctl.outcome = func.outcome

\* The RequestState Recover returns in that case.
RecoverState(h) ==
    LET rec == AsRecover(h)
    IN IF rec.then = "return" THEN rec.request_state
       ELSE RecoverFunc(Cursor(h.request_state), rec.request_state,
                        h.results[Len(h.results)]).request_state

\* C12 as claimed: RecoverForward returns what Recover returns for the same
\* inner filter, request and entry state, RequestState and cursor included,
\* but for Forward{reason} in place of Success(value) on a matched Error.
C12_SameAsRecover ==
    \A h \in Hists :
        (h.filter.op = "RecoverForward" /\ Returns(h)) =>
            /\ SameOutcomeAsRecover(h)
            /\ ctl.request_state = RecoverState(h)

\* C12 as amended: the outcomes agree as claimed, but RecoverForward never
\* restores the cursor: it returns the RequestState its inner filter
\* returned, where Recover restores the entry cursor on the inner filter's
\* Success, on a matched Error and on the function's Ok.
C12_RecoverForwardKeepsCursor ==
    \A h \in Hists :
        (h.filter.op = "RecoverForward" /\ Returns(h)) =>
            /\ SameOutcomeAsRecover(h)
            /\ ctl.request_state = h.results[1].request_state

\* A RecoverForward returns the Success of an inner filter that consumed path.
C12_Witness ==
    \E h \in Hists :
        /\ h.filter.op = "RecoverForward"
        /\ Returns(h)
        /\ ctl.outcome.tag = "Success"
        /\ Cursor(h.results[1].request_state) > Cursor(h.request_state)

\* C13: a Recover or RecoverForward declared against the boxed envelope
\* matches every Error, whatever type is boxed inside: once its inner filter
\* has returned an Error, the function has been called with that error.
C13_EnvelopeMatchesAll ==
    \A h \in Hists :
        (/\ h.filter.op \in {"Recover", "RecoverForward"}
         /\ h.filter.E = Boxed
         /\ FirstFailed(h)) =>
            /\ FuncCalls(h) # {}
            /\ h.calls[2].input = <<h.results[1].outcome.error>>

\* A RecoverForward against the envelope has recovered a Redirect, and the
\* function has answered.
C13_Witness ==
    \E h \in Hists :
        /\ h.filter.op = "RecoverForward"
        /\ h.filter.E = Boxed
        /\ FirstFailed(h)
        /\ h.results[1].outcome.error.type = "Redirect"
        /\ Returns(h)
        /\ Len(h.results) = 2

\* Decimal notation, written out independently of from_str: the digits of a
\* natural number, and of the magnitude of a negative one.
RECURSIVE Decimal(_)
Decimal(n) == IF n < 10 THEN <<48 + n>> ELSE Decimal(n \div 10) \o <<48 + (n % 10)>>

MagnitudeDecimal(n) ==
    LET d == (10 - (n % 10)) % 10
        q == -((n + d) \div 10)
    IN (IF q = 0 THEN <<>> ELSE Decimal(q)) \o <<48 + d>>

RECURSIVE StripZeros(_)
StripZeros(digits) ==
    IF Len(digits) > 1 /\ Head(digits) = 48 THEN StripZeros(Tail(digits)) ELSE digits

IsDigits(seg) == seg # <<>> /\ \A i \in 1..Len(seg) : seg[i] \in 48..57

\* a <= b for numbers in decimal notation without leading zeros.
LeqDecimal(a, b) ==
    \/ Len(a) < Len(b)
    \/ /\ Len(a) = Len(b)
       /\ \/ a = b
          \/ \E i \in 1..Len(a) : a[i] < b[i] /\ \A j \in 1..(i - 1) : a[j] = b[j]

\* The segment is an integer in decimal notation, with an optional sign.
WellFormedInt(seg) ==
    \/ IsDigits(seg)
    \/ Len(seg) > 1 /\ seg[1] \in {43, 45} /\ IsDigits(Tail(seg))

\* The integer denoted lies within the range of the type.
InRange(bits, seg) ==
    IF seg[1] = 45
    THEN LeqDecimal(StripZeros(Tail(seg)), MagnitudeDecimal(IntMin(bits)))
    ELSE LeqDecimal(StripZeros(IF seg[1] = 43 THEN Tail(seg) ELSE seg), Decimal(IntMax(bits)))

\* The request is "/a/<segment>/bar" and the chain evaluated is
\* literal("a").and(param::<T>()).and(literal("bar")).and(end()).
ParamSegment == SubSeq(request.path, 4, Len(request.path) - 4)

OnParamChain ==
    /\ \E bits \in {8, 32} : filter = ParamChain(bits)
    /\ Len(request.path) >= 8
    /\ request.path = <<SLASH, 97, SLASH>> \o ParamSegment \o <<SLASH, 98, 97, 114>>
    /\ \A i \in 1..Len(ParamSegment) : ParamSegment[i] # SLASH

ParamBits == filter.first.first.second.filter.func.bits

YieldsTheInteger ==
    /\ ctl.outcome.tag = "Success"
    /\ Len(ctl.outcome.success) = 1
    /\ ctl.outcome.success[1].int >= 0
    /\ Decimal(ctl.outcome.success[1].int) = StripZeros(ParamSegment)

\* For every segment: param::<T>() never returns Error, and a failure of
\* from_str ends in Forward(NotFound).
ParseFailureForwards ==
    \A h \in Hists :
        (h.filter.op = "RecoverForward" /\ h.filter.E = "ForwardParam" /\ Returns(h)) =>
            /\ ctl.outcome.tag # "Error"
            /\ h.results[1].outcome.tag = "Error" => ctl.outcome = Forward(<<>>, NotFound)

\* C14 as claimed: on "/a/<digits>/bar" the chain yields Success(the
\* integer); when the second segment is not an integer it yields
\* Forward(NotFound); a parse failure in param is never an Error.
C14_AnyDigitsParse ==
    /\ (Done /\ OnParamChain /\ IsDigits(ParamSegment)) => YieldsTheInteger
    /\ (Done /\ OnParamChain /\ ~WellFormedInt(ParamSegment)) =>
          ctl.outcome = Forward(<<>>, NotFound)
    /\ ParseFailureForwards

\* C14 as amended: on "/a/<digits>/bar" the chain yields Success(the
\* integer) when the digits denote a value within the range of the integer
\* type; when the second segment is not an integer, or is out of that range,
\* it yields Forward(NotFound); a parse failure in param is never an Error.
C14_ParamParses ==
    /\ (/\ Done /\ OnParamChain
        /\ IsDigits(ParamSegment) /\ InRange(ParamBits, ParamSegment)) => YieldsTheInteger
    /\ (/\ Done /\ OnParamChain
        /\ ~(WellFormedInt(ParamSegment) /\ InRange(ParamBits, ParamSegment))) =>
          ctl.outcome = Forward(<<>>, NotFound)
    /\ ParseFailureForwards

\* The chain for i32 has answered "/a/2345/bar" with Success(2345).
C14_Witness ==
    /\ Done
    /\ filter = ParamChain(32)
    /\ request.path = <<SLASH, 97, SLASH, 50, 51, 52, 53, SLASH, 98, 97, 114>>
    /\ ctl.outcome = Success(<<IntVal(2345)>>)

\* The path that remained when the future with history h was created, its
\* leading separator (0 or 1 bytes), and its first segment: what follows the
\* separator up to the next slash.
Remaining(h) == SubSeq(request.path, Cursor(h.request_state) + 1, Len(request.path))

Separator(path) == IF path # <<>> /\ path[1] = SLASH THEN 1 ELSE 0

RECURSIVE UpToSlash(_)
UpToSlash(path) ==
    IF path = <<>> \/ Head(path) = SLASH THEN <<>>
    ELSE <<Head(path)>> \o UpToSlash(Tail(path))

NextSegment(path) == UpToSlash(SubSeq(path, Separator(path) + 1, Len(path)))

Decoded(seg) == decode_utf8_lossy(percent_decode_str(seg))

LiteralMatches(h) ==
    /\ Remaining(h) \notin {<<>>, <<SLASH>>}
    /\ Decoded(NextSegment(Remaining(h))) = h.filter.value

C16_ParamStrNonEmpty ==
    \A h \in Hists :
        (h.filter.op = "ParamStr" /\ Returns(h)) =>
            /\ ctl.outcome.tag = "Success" =>
                 /\ ctl.outcome.success[1].str # <<>>
                 /\ Cursor(ctl.request_state) > Cursor(h.request_state)
            /\ Remaining(h) \in {<<>>, <<SLASH>>} =>
                 /\ ctl.outcome = Forward(<<>>, NotFound)
                 /\ Cursor(ctl.request_state) = Cursor(h.request_state)

\* C17: end() returns Success exactly when nothing remains after the cursor
\* or the full path is "" or "/", Error(Redirect) exactly when what remains
\* is "/" and the full path is not "/", and Forward(NotFound) in every other
\* case; it never moves the cursor.
C17_EndOutcomes ==
    \A h \in Hists :
        (h.filter.op = "End" /\ Returns(h)) =>
            LET succeeds == Remaining(h) = <<>> \/ request.path \in {<<>>, <<SLASH>>}
                redirects == Remaining(h) = <<SLASH>> /\ request.path # <<SLASH>>
            IN /\ ctl.outcome.tag = "Success" <=> succeeds
               /\ (ctl.outcome.tag = "Error" /\ ctl.outcome.error.type = "Redirect") <=> redirects
               /\ (~succeeds /\ ~redirects) => ctl.outcome = Forward(<<>>, NotFound)
               /\ ctl.outcome.tag = "Error" => redirects
               /\ Cursor(ctl.request_state) = Cursor(h.request_state)

\* end() has answered the root path "/", where "/" remains, with Success.
C17_Witness ==
    \E h \in Hists :
        /\ h.filter.op = "End"
        /\ Returns(h)
        /\ request.path = <<SLASH>>
        /\ Remaining(h) = <<SLASH>>
        /\ ctl.outcome = Success(<<>>)

\* The '/'-separated segments of a string, empty ones included, stated by
\* where they lie: between two slashes, or a slash and an end of the string.
SegmentsAt(d) ==
    {at \in (1..(Len(d) + 1)) \X (0..Len(d)) :
        /\ at[2] >= at[1] - 1
        /\ at[1] = 1 \/ d[at[1] - 1] = SLASH
        /\ at[2] = Len(d) \/ d[at[2] + 1] = SLASH
        /\ \A k \in at[1]..at[2] : d[k] # SLASH}

SegmentsOf(d) == {SubSeq(d, at[1], at[2]) : at \in SegmentsAt(d)}

Traversal(seg) ==
    /\ seg # <<>>
    /\ \/ seg[1] \in {46, 42}
       \/ seg[Len(seg)] \in {58, 60, 62}
       \/ \E i \in 1..Len(seg) : seg[i] \in {92, 0}

\* C18: tail_path returns Forward(NotFound) and leaves the cursor where it
\* was whenever a segment of the percent-decoded remaining path starts with
\* '.' or '*', ends with ':', '<' or '>', or holds a backslash or a null
\* byte; a path it accepts holds no such segment (no ".." in particular) and
\* no empty segment: it is the non-empty segments of the decoded path.
C18_TailPathSanitizes ==
    \A h \in Hists :
        (h.filter.op = "TailPath" /\ Returns(h)) =>
            LET decoded == Decoded(Remaining(h))
            IN /\ (\E seg \in SegmentsOf(decoded) : Traversal(seg)) =>
                    /\ ctl.outcome = Forward(<<>>, NotFound)
                    /\ Cursor(ctl.request_state) = Cursor(h.request_state)
               /\ ctl.outcome.tag = "Success" =>
                    LET accepted == ctl.outcome.success[1].path
                    IN /\ \A i \in 1..Len(accepted) :
                            /\ accepted[i] \notin {<<>>, <<46, 46>>}
                            /\ ~Traversal(accepted[i])
                            /\ accepted[i] \in SegmentsOf(decoded)
                       /\ \A seg \in SegmentsOf(decoded) :
                            seg # <<>> => \E i \in 1..Len(accepted) : accepted[i] = seg
                       /\ Len(accepted) =
                            Cardinality({at \in SegmentsAt(decoded) : at[2] >= at[1]})

\* tail_path has refused a path whose traversal only shows after decoding.
C18_Witness ==
    \E h \in Hists :
        /\ h.filter.op = "TailPath"
        /\ Returns(h)
        /\ ctl.outcome = Forward(<<>>, NotFound)
        /\ \E seg \in SegmentsOf(Decoded(Remaining(h))) : seg = <<46, 46>>
        /\ \A seg \in SegmentsOf(Remaining(h)) : ~Traversal(seg)


(***************************************************************************)
(* Forwarding::combine as an algebra.                                      *)
(***************************************************************************)
\* The methods an AttemptedMethods value stands for, by bit position.
MethodSet(attempted) ==
    {i \in 0..(AttemptedBits - 1) : (attempted \div (2^i)) % 2 = 1}

\* C19: NotFound is the identity of combine on both sides, and combine is
\* associative: grouping three reasons to the left or to the right gives the
\* same reason.
C19_CombineMonoid ==
    ctl.kind = "combine" =>
        /\ ctl.ab.some =>
            /\ ctl.a = NotFound => ctl.ab.value = ctl.b
            /\ ctl.b = NotFound => ctl.ab.value = ctl.a
        /\ (ctl.left.some /\ ctl.right.some) => ctl.left.value = ctl.right.value

\* Both groupings of three reasons have been computed, with NotFound between
\* two different sets of attempted methods.
C19_Witness ==
    /\ ctl.kind = "combine"
    /\ ctl.left.some /\ ctl.right.some
    /\ ctl.a = MethodNotAllowed(AttemptedGET)
    /\ ctl.b = NotFound
    /\ ctl.c = MethodNotAllowed(AttemptedPOST)
    /\ ctl.left.value = MethodNotAllowed(3)

\* C20: combine is commutative, and two MethodNotAllowed reasons combine to
\* MethodNotAllowed of the union of their attempted methods.
C20_CombineUnion ==
    ctl.kind = "combine" =>
        /\ (ctl.ab.some /\ ctl.ba.some) => ctl.ab.value = ctl.ba.value
        /\ (ctl.ab.some /\ ctl.a.tag = "MethodNotAllowed" /\ ctl.b.tag = "MethodNotAllowed") =>
            /\ ctl.ab.value.tag = "MethodNotAllowed"
            /\ MethodSet(ctl.ab.value.attempted) =
                    MethodSet(ctl.a.attempted) \cup MethodSet(ctl.b.attempted)

\* Two overlapping, different sets of attempted methods have been combined in
\* both orders.
C20_Witness ==
    /\ ctl.kind = "combine"
    /\ ctl.ab.some /\ ctl.ba.some
    /\ ctl.a = MethodNotAllowed(3)
    /\ ctl.b = MethodNotAllowed(6)
    /\ MethodSet(ctl.ab.value.attempted) = {0, 1, 2}


(***************************************************************************)
(* Value lists.                                                            *)
(***************************************************************************)
\* C21: append(A, B) has arity m+n and holds A's elements then B's, in order;
\* remove of it gives back exactly (A, B); appending the empty list changes
\* nothing.
C21_AppendRemove ==
    ctl.kind = "tuples" =>
        /\ ctl.appended.some =>
            LET A == ctl.self
                B == ctl.ending
                AB == ctl.appended.value
            IN /\ Len(AB) = Len(A) + Len(B)
               /\ \A i \in 1..Len(A) : AB[i] = A[i]
               /\ \A j \in 1..Len(B) : AB[Len(A) + j] = B[j]
               /\ B = <<>> => AB = A
        /\ ctl.removed.some =>
            /\ ctl.removed.value[1] = ctl.self
            /\ ctl.removed.value[2] = ctl.ending

\* Two lists with different elements, each of arity two, have been appended
\* and split again.
C21_Witness ==
    /\ ctl.kind = "tuples"
    /\ ctl.self = <<"x", "y">>
    /\ ctl.ending = <<"z", "x">>
    /\ ctl.appended.some
    /\ ctl.removed.some
    /\ ctl.appended.value[3] = "z"


(***************************************************************************)
(* The body buffer.                                                        *)
(***************************************************************************)
\* The bytes of a queue of chunks, in order.
RECURSIVE Flat(_)
Flat(bytes) == IF bytes = <<>> THEN <<>> ELSE Head(bytes) \o Flat(Tail(bytes))

\* C22: every read returns min(buffer length, remaining bytes), fills that
\* many bytes and leaves the rest of the buffer alone, and never panics; with
\* reads only, the bytes returned so far followed by the bytes still queued
\* are the original bytes, so an exhausted buffer has returned all of them and
\* further reads return 0.
C22_BulkRead ==
    ctl.kind = "bytes_buf" =>
        /\ ctl.last.op = "read" =>
            LET had == SumLen(ctl.last.before.bytes)
                want == IF ctl.last.size < had THEN ctl.last.size ELSE had
            IN /\ ~ctl.panicked
               /\ ctl.last.result.tag = "Returned"
               /\ ctl.last.result.value.n = want
               /\ Len(ctl.last.result.value.buf) = ctl.last.size
               /\ \A i \in 1..ctl.last.size :
                    ctl.last.result.value.buf[i] =
                        IF i <= want THEN Flat(ctl.last.before.bytes)[i] ELSE 0
               /\ had = 0 => ctl.last.result.value.n = 0
        /\ ctl.advanced = 0 =>
            /\ ctl.out \o Flat(ctl.reader.bytes) = Flat(ctl.original)
            /\ ctl.reader.bytes = <<>> => ctl.out = Flat(ctl.original)

\* Reads have returned every byte of a queue of two chunks, and a later read
\* with a non-empty buffer returned 0.
C22_Witness ==
    /\ ctl.kind = "bytes_buf"
    /\ ctl.advanced = 0
    /\ ctl.original = <<<<97>>, <<98, 97>>>>
    /\ ctl.out = <<97, 98, 97>>
    /\ ctl.last.op = "read"
    /\ ctl.last.size = 2
    /\ ctl.last.before.len = 0
    /\ ctl.last.result.value.n = 0

\* C23: advance(N) with N <= remaining takes exactly N off the total and the
\* first N bytes off the queue, dropping whole chunks and splitting at most
\* one; advance(N) with N > remaining panics; after any calls the total is
\* the sum of the lengths of the queued chunks.
C23_Advance ==
    ctl.kind = "bytes_buf" =>
        /\ ~ctl.panicked => ctl.reader.len = SumLen(ctl.reader.bytes)
        /\ ctl.last.op = "advance" =>
            LET before == ctl.last.before
                N == ctl.last.size
            IN IF N > before.len
               THEN ctl.panicked /\ ctl.last.result.tag = "Panicked"
               ELSE /\ ~ctl.panicked
                    /\ ctl.reader.len = before.len - N
                    /\ Flat(ctl.reader.bytes) =
                            SubSeq(Flat(before.bytes), N + 1, Len(Flat(before.bytes)))
                    /\ LET dropped == Len(before.bytes) - Len(ctl.reader.bytes)
                       IN /\ dropped >= 0
                          /\ \A i \in 2..Len(ctl.reader.bytes) :
                                ctl.reader.bytes[i] = before.bytes[dropped + i]
                          /\ \A i \in 1..Len(ctl.reader.bytes) : ctl.reader.bytes[i] # <<>>

\* An advance has dropped a whole chunk and split the next one.
C23_Witness ==
    /\ ctl.kind = "bytes_buf"
    /\ ~ctl.panicked
    /\ ctl.last.op = "advance"
    /\ ctl.last.size = 3
    /\ ctl.last.before.bytes = <<<<97, 98>>, <<98, 97>>>>
    /\ ctl.reader.bytes = <<<<97>>>>


(***************************************************************************)
(* The content-length guard.                                               *)
(***************************************************************************)
\* C24: content_length_limit(limit) returns Error(ContentLengthError) with
\* the declared length when Content-Length is greater than limit, Success
\* when the header is missing or its value is at most limit, and in every
\* case hands back the RequestState it was given, body state included.
C24_ContentLengthLimit ==
    \A h \in Hists : \A limit \in Limits :
        (h.filter = content_length_limit(limit) /\ Returns(h)) =>
            LET declared == request.headers["content-length"]
            IN /\ ctl.request_state = h.request_state
               /\ ~declared.some => ctl.outcome = Success(<<>>)
               /\ declared.some =>
                    IF LeqDecimal(StripZeros(declared.value), Decimal(limit))
                    THEN ctl.outcome = Success(<<>>)
                    ELSE /\ ctl.outcome.tag = "Error"
                         /\ ctl.outcome.error.type = "ContentLengthError"
                         /\ Decimal(ctl.outcome.error.data.length) = StripZeros(declared.value)

\* The guard has let through a declared length equal to its limit, with the
\* body still unread.
C24_Witness ==
    \E h \in Hists :
        /\ h.filter = content_length_limit(5)
        /\ Returns(h)
        /\ request.headers["content-length"] = Some(<<48, 48, 53>>)
        /\ ctl.outcome = Success(<<>>)
        /\ ctl.request_state.body.tag = "Pending"
        /\ ctl.request_state.body.stream # <<>>


(***************************************************************************)
(* The response of the service.                                            *)
(***************************************************************************)
\* The method names a header value lists: the pieces that are not separators.
ListedMethods(value) == {value[i] : i \in {j \in 1..Len(value) : j % 2 = 1}}

MethodNames(S) == {CheckedMethods[i + 1].name : i \in S \cap (0..8)}

\* C25: the service answers a top-level Success with the responder's
\* response, an Error with its type's response (308 and the location for
\* Redirect, 500 otherwise), Forward(NotFound) with 404, and
\* Forward(MethodNotAllowed(S)) with 405 and an Allow header that lists
\* exactly the methods of S, each once, separated by ", ".
C25_FinalResponse ==
    ctl.kind = "response" =>
        LET outcome == ctl.outcome
            response == ctl.response
        IN CASE outcome.tag = "Success" ->
                  response.status = OK /\ response.body = outcome.success[1]
             [] outcome.tag = "Error" ->
                  IF outcome.error.type = "Redirect"
                  THEN /\ response.status = PERMANENT_REDIRECT
                       /\ response.location = Some(outcome.error.location)
                  ELSE response.status = INTERNAL_SERVER_ERROR
             [] outcome.tag = "Forward" ->
                  IF outcome.forwarding.tag = "NotFound"
                  THEN response.status = NOT_FOUND /\ "allow" \notin DOMAIN response
                  ELSE LET S == MethodSet(outcome.forwarding.attempted)
                           allow == response.allow.value
                       IN /\ response.status = METHOD_NOT_ALLOWED
                          /\ ListedMethods(allow) = MethodNames(S)
                          /\ Len(allow) = IF S = {} THEN 0 ELSE 2 * Cardinality(S) - 1
                          /\ \A j \in 1..Len(allow) : j % 2 = 0 => allow[j] = ", "

\* The service has answered 405 with two methods allowed, after both
\* branches of an `or` refused the method.
C25_Witness ==
    /\ ctl.kind = "response"
    /\ ctl.outcome.tag = "Forward"
    /\ ctl.outcome.forwarding = MethodNotAllowed(3)
    /\ filter.op = "Or"
    /\ ctl.response.status = METHOD_NOT_ALLOWED
    /\ ctl.response.allow = Some(<<"GET", ", ", "POST">>)


(***************************************************************************)
(* The RequestState of a request.                                          *)
(***************************************************************************)
\* The futures that keep the RequestState in their own field while they
\* wait for a function.
Stashes == {i \in 1..Len(stack) :
                "request_state" \in DOMAIN stack[i] /\ stack[i].request_state.some}

\* The RequestState is on its way into a step or out of one.
InTransit == ctl.kind \in {"execute", "ready"}

\* C26: at every point of an evaluation the RequestState is in exactly one
\* place: passed to the step being executed, handed back by the step that has
\* just returned, or kept by the one combinator that waits for its function;
\* and whatever the outcome, a step that returns hands it back, so the
\* evaluation ends with it.
C26_OneRequestState ==
    /\ Cardinality(Stashes) + (IF InTransit THEN 1 ELSE 0) = 1
    /\ Stashes # {} => Stashes = {Len(stack)} /\ ctl.kind = "await"
    /\ \A h \in Hists : \A i \in 1..Len(h.results) :
            (h.calls[i].who # "func") =>
                /\ "request_state" \in DOMAIN h.results[i]
                /\ h.results[i].outcome.tag \in {"Success", "Error", "Forward"}

\* A recovery function is being awaited two futures deep: the Recover future
\* holds the RequestState and nobody else does.
C26_Witness ==
    /\ ctl.kind = "await"
    /\ Len(stack) >= 2
    /\ Top.op = "Recover"
    /\ Top.request_state.some
    /\ \E i \in 1..Len(Top.hist.results) : Top.hist.results[i].outcome.tag = "Error"


(***************************************************************************)
(* Receive.                                                                *)
(***************************************************************************)
\* list is prefix followed by rest, element by element.
PrefixThen(list, prefix, rest) ==
    /\ Len(list) = Len(prefix) + Len(rest)
    /\ \A i \in 1..Len(prefix) : list[i] = prefix[i]
    /\ \A j \in 1..Len(rest) : list[Len(prefix) + j] = rest[j]

\* C27: Receive<R>(inner) executes inner with the input that follows the
\* prefix R of its own input, and with the same RequestState; inner's
\* Success(s) becomes Success(R then s), inner's Forward with input i becomes
\* Forward with input R then i and the same reason, and inner's Error is
\* returned as it is.
C27_ReceivePrefix ==
    \A h \in Hists :
        h.filter.op = "Receive" =>
            LET R == SubSeq(h.input, 1, h.filter.arity)
            IN /\ Len(h.calls) = 1
               /\ PrefixThen(h.input, R, h.calls[1].input)
               /\ Len(R) = h.filter.arity
               /\ h.calls[1].request_state = h.request_state
               /\ Returns(h) =>
                    LET inner == h.results[1]
                    IN /\ ctl.request_state = inner.request_state
                       /\ CASE inner.outcome.tag = "Success" ->
                                 /\ ctl.outcome.tag = "Success"
                                 /\ PrefixThen(ctl.outcome.success, R, inner.outcome.success)
                            [] inner.outcome.tag = "Forward" ->
                                 /\ ctl.outcome.tag = "Forward"
                                 /\ PrefixThen(ctl.outcome.input, R, inner.outcome.input)
                                 /\ ctl.outcome.forwarding = inner.outcome.forwarding
                            [] inner.outcome.tag = "Error" ->
                                 ctl.outcome = inner.outcome

\* A Receive with a prefix of two values has returned Success around an inner
\* filter that produced a value of its own.
C27_Witness ==
    \E h \in Hists :
        /\ h.filter.op = "Receive"
        /\ h.filter.arity = 2
        /\ Returns(h)
        /\ h.input[1] # h.input[2]
        /\ ctl.outcome.tag = "Success"
        /\ Len(ctl.outcome.success) = 3


(***************************************************************************)
(* Requests evaluated concurrently.                                        *)
(***************************************************************************)
\* C28: when two requests are evaluated against the same chain with their
\* steps interleaved in any way, each one ends with the outcome and the
\* RequestState (path cursor and body state) it ends with when it is
\* evaluated alone.
C28_RequestIsolation ==
    ("phase" \in DOMAIN request /\ request.phase = "together") =>
        \A task \in {Running, request.parked} :
            Finished(task) => Result(task) = request.alone[task.id]

\* Two different requests have both finished with different results, after
\* the executor switched between them while both were in the middle of their
\* evaluation.
C28_Witness ==
    /\ request.phase = "together"
    /\ request.interleaved
    /\ Finished(Running)
    /\ Finished(request.parked)
    /\ Result(Running) # Result(request.parked)
    /\ Result(Running).request_state.current_path_index > 0
    /\ Result(request.parked).request_state.body.tag = "Error"


(***************************************************************************)
(* Progress.                                                               *)
(***************************************************************************)
\* The children of a combinator, in the order of the chain.
ChildOrder(op) ==
    IF op \in {"And", "Or", "Then"} THEN <<"first", "second">>
    ELSE IF op \in {"Handle", "Recover", "RecoverForward"} THEN <<"filter", "func">>
    ELSE IF op = "Receive" THEN <<"filter">>
    ELSE <<>>

\* Children are started in chain order, each after the one before it has
\* returned: a future on the stack waits for exactly one child, the last one
\* it started, and a future that has returned waits for none.
ChainOrder ==
    /\ \A h \in Hists :
        /\ Len(h.calls) <= Len(ChildOrder(h.filter.op))
        /\ \A i \in 1..Len(h.calls) : h.calls[i].who = ChildOrder(h.filter.op)[i]
    /\ \A i \in 1..Len(stack) :
            Len(stack[i].hist.calls) = Len(stack[i].hist.results) + 1
    /\ ctl.kind = "ready" => Len(ctl.by.calls) = Len(ctl.by.results)

\* C29: with leaf steps and functions that complete, the evaluation of a
\* chain completes, with one outcome that stays; no combinator waits on its
\* own; children start in chain order, one at a time.
C29_Progress ==
    /\ []ChainOrder
    /\ <>[](Done /\ ctl.outcome.tag \in {"Success", "Error", "Forward"})

\* An evaluation three futures deep has completed after a recovery function
\* ran.
C29_Witness ==
    /\ Done
    /\ ctl.by.filter.op = "Recover"
    /\ Len(ctl.by.calls) = 2
    /\ ctl.by.filter.filter.op = "Recover"
    /\ ctl.outcome.tag = "Success"



(***************************************************************************)
(* The body codecs.                                                        *)
(***************************************************************************)
\* The Content-Type values that name the codec's media type.
MediaTypes(codec) ==
    IF codec = "json" THEN {"application/json", "application/json; charset=utf-8"}
    ELSE {"application/x-www-form-urlencoded"}

StreamFails(stream) == \E i \in 1..Len(stream) : stream[i] = StreamErr

RECURSIVE StreamBytes(_)
StreamBytes(stream) ==
    IF stream = <<>> THEN <<>>
    ELSE (IF Head(stream).tag = "Data" THEN Head(stream).buf ELSE <<>>)
            \o StreamBytes(Tail(stream))

\* C30: json::request and urlencoded::request check the Content-Type before
\* they read the body: a missing header is Error(NoContentType) and a value
\* that is not the codec's media type is Error(WrongContentType), both with
\* the body never polled; a failure of the body stream is the codec's
\* Error(Reading), never a body::Error as it is; a body that does not decode
\* is Error(Deserializing); and a Recover declared for the codec's error type
\* around the codec is called with each of these errors, while a Recover
\* declared for another error type lets them through.
C30_CodecErrors ==
    \A h \in Hists : \A codec \in Codecs :
        /\ (h.filter = codec_request(codec) /\ Returns(h)) =>
            LET value == request.headers["content-type"]
                stream == h.request_state.body.stream
            IN IF ~value.some
               THEN /\ ctl.outcome.tag = "Error"
                    /\ ctl.outcome.error.type = CodecErrorType(codec)
                    /\ ctl.outcome.error.data.variant = "NoContentType"
                    /\ ctl.request_state = h.request_state
               ELSE IF value.value \notin MediaTypes(codec)
               THEN /\ ctl.outcome.tag = "Error"
                    /\ ctl.outcome.error.type = CodecErrorType(codec)
                    /\ ctl.outcome.error.data.variant = "WrongContentType"
                    /\ ctl.outcome.error.data.inner = value.value
                    /\ ctl.request_state = h.request_state
               ELSE IF StreamFails(stream)
               THEN /\ ctl.outcome.tag = "Error"
                    /\ ctl.outcome.error.type = CodecErrorType(codec)
                    /\ ctl.outcome.error.data.variant = "Reading"
                    /\ ctl.outcome.error.data.inner.type = "body::Error"
               ELSE IF StreamBytes(stream) \notin Documents
               THEN /\ ctl.outcome.tag = "Error"
                    /\ ctl.outcome.error.type = CodecErrorType(codec)
                    /\ ctl.outcome.error.data.variant = "Deserializing"
               ELSE ctl.outcome = Success(<<[document |-> StreamBytes(stream)]>>)
        /\ \A E \in {"json::Error", "urlencoded::Error", "body::Error"} :
            (/\ h.filter = Recover(codec_request(codec), FnRecovered, E)
             /\ Returns(h)
             /\ h.results[1].outcome.tag = "Error") =>
                IF E = CodecErrorType(codec)
                THEN /\ Len(h.calls) = 2
                     /\ h.calls[2].who = "func"
                     /\ h.calls[2].input = <<h.results[1].outcome.error>>
                     /\ ctl.outcome = Success(<<Val("w")>>)
                ELSE /\ Len(h.calls) = 1
                     /\ ctl.outcome = h.results[1].outcome

\* The JSON codec has returned Error(Reading) for a body whose stream failed
\* after a first chunk, under a matching Content-Type.
C30_Witness ==
    \E h \in Hists :
        /\ h.filter = codec_request("json")
        /\ Returns(h)
        /\ request.headers["content-type"] = Some("application/json; charset=utf-8")
        /\ h.request_state.body.stream = <<Data(<<97>>), StreamErr>>
        /\ ctl.outcome.tag = "Error"
        /\ ctl.outcome.error.data.variant = "Reading"
        /\ ctl.request_state.body = BodyError



(***************************************************************************)
(* Origin checking.                                                        *)
(***************************************************************************)
Elements(seq) == {seq[i] : i \in 1..Len(seq)}

\* The Config of the Cors that is evaluated.
Policy == filter.config

OriginAllowed ==
    /\ request.headers["origin"].some
    /\ Policy.origins.some => request.headers["origin"].value \in Elements(Policy.origins.value)

OriginRefused ==
    /\ request.headers["origin"].some
    /\ Policy.origins.some
    /\ request.headers["origin"].value \notin Elements(Policy.origins.value)

\* The Response a Cors that has returned answered with.
Answer == ctl.outcome.success[1]

\* C31: a request that is not OPTIONS, carries an Origin header and has an
\* origin or a method the Config does not allow is answered by Cors with
\* Success of a 403 response that has exactly one Vary header, Origin, and
\* the wrapped filter is never executed for it.
C31_ForbidsOrigin ==
    (/\ filter.op = "Cors"
     /\ request.method # "OPTIONS"
     /\ OriginRefused \/ (OriginAllowed /\ request.method \notin Elements(Policy.methods))) =>
        /\ stack = <<>>
        /\ \A h \in Hists : h.filter = filter /\ h.calls = <<>>
        /\ ctl.kind = "ready" =>
            /\ ctl.outcome.tag = "Success"
            /\ Answer.status = FORBIDDEN
            /\ get_all(headers_of(Answer), "vary") = <<"origin">>
            /\ ctl.request_state = NewRequestState

\* A DELETE from an allowed origin has been refused for its method.
C31_Witness ==
    /\ filter.op = "Cors"
    /\ request.method = "DELETE"
    /\ request.headers["origin"] = Some("o1")
    /\ Policy.origins = Some(<<"o1">>)
    /\ ctl.kind = "ready"
    /\ Answer.status = FORBIDDEN
    /\ Hists = {NewHist(filter, NewRequestState, <<>>)}

\* The header names a value of Access-Control-Request-Headers lists: what
\* stands between its commas, without the spaces around it.
RECURSIVE Unpadded(_)
Unpadded(piece) ==
    IF piece # <<>> /\ Head(piece) = " " THEN Unpadded(Tail(piece))
    ELSE IF piece # <<>> /\ piece[Len(piece)] = " "
         THEN Unpadded(SubSeq(piece, 1, Len(piece) - 1))
    ELSE piece

RECURSIVE Pieces(_)
Pieces(value) ==
    IF \E i \in 1..Len(value) : value[i] = ","
    THEN LET i == CHOOSE j \in 1..Len(value) :
                    value[j] = "," /\ \A k \in 1..(j - 1) : value[k] # ","
         IN <<SubSeq(value, 1, i - 1)>> \o Pieces(SubSeq(value, i + 1, Len(value)))
    ELSE <<value>>

ListedNames(value) == {Unpadded(piece) : piece \in Elements(Pieces(value))}

\* A value that is a list of names: each name is a run of letters.
IsNameList(value) ==
    \A name \in ListedNames(value) :
        name # <<>> /\ \A i \in 1..Len(name) : name[i] \notin {" ", ","}

Lowered(name) == [i \in 1..Len(name) |-> IF name[i] = "A" THEN "a" ELSE name[i]]

\* The names the preflight request asks for, over all its values.
RequestedNames ==
    UNION {ListedNames(value) :
                value \in Elements(request.all["access-control-request-headers"])}

Preflight ==
    /\ filter.op = "Cors"
    /\ request.method = "OPTIONS"
    /\ request.headers["origin"].some
    /\ ctl.kind = "ready"

\* C32: a preflight request with an allowed Origin and an allowed
\* Access-Control-Request-Method is answered 204 when every header name that
\* Access-Control-Request-Headers lists, one name or several separated by
\* commas with optional spaces, is an allowed header, and 403 when a listed
\* name is not; without Access-Control-Request-Method the answer is 400, and
\* with an origin that is not allowed it is 403.
C32_Preflight ==
    Preflight =>
        /\ ctl.outcome.tag = "Success"
        /\ OriginRefused => Answer.status = FORBIDDEN
        /\ (OriginAllowed /\ ~request.headers["access-control-request-method"].some) =>
                Answer.status = BAD_REQUEST
        /\ (/\ OriginAllowed
            /\ request.headers["access-control-request-method"].some
            /\ request.headers["access-control-request-method"].value
                    \in Elements(Policy.methods)
            /\ \A value \in Elements(request.all["access-control-request-headers"]) :
                    IsNameList(value)) =>
                Answer.status =
                    IF \A name \in RequestedNames :
                            Lowered(name) \in Elements(Policy.allow_headers)
                    THEN NO_CONTENT ELSE FORBIDDEN



(***************************************************************************)
(* Routing by method.                                                      *)
(***************************************************************************)
\* The branches of an Or chain, however it is grouped.
RECURSIVE OrBranches(_)
OrBranches(f) ==
    IF f.op = "Or" THEN OrBranches(f.first) \cup OrBranches(f.second) ELSE {f}

ChainMethods(f) == {b.method : b \in {c \in OrBranches(f) : c.op = "Method"}}

\* C33: an Or chain of method filters m1..mn returns Success for a request
\* whose method is one of them and Forward(MethodNotAllowed(S)) with S exactly
\* {m1..mn} for any other; and a forwarding Or chain in which some branches
\* forward NotFound and at least one forwards MethodNotAllowed forwards
\* MethodNotAllowed, never NotFound.
C33_MethodsUnderOr ==
    \A h \in Hists :
        Returns(h) =>
            /\ (\A b \in OrBranches(h.filter) : b.op = "Method") =>
                IF request.method \in ChainMethods(h.filter)
                THEN ctl.outcome = Success(<<>>)
                ELSE /\ ctl.outcome.tag = "Forward"
                     /\ ctl.outcome.forwarding.tag = "MethodNotAllowed"
                     /\ MethodNames(MethodSet(ctl.outcome.forwarding.attempted))
                            = ChainMethods(h.filter)
            /\ (/\ h.filter.op = "Or"
                /\ Len(h.results) = 2
                /\ ctl.outcome.tag = "Forward"
                /\ \E i \in 1..2 : h.results[i].outcome.forwarding.tag = "MethodNotAllowed") =>
                    ctl.outcome.forwarding.tag = "MethodNotAllowed"
            /\ (ctl.outcome.tag = "Forward" /\ ChainMethods(h.filter) # {}) =>
                    ctl.outcome.forwarding.tag = "MethodNotAllowed"

\* get().or(literal("a")).or(put()) has forwarded a POST to another path with
\* the two methods it tried.
C33_Witness ==
    \E h \in Hists :
        /\ Returns(h)
        /\ h.filter = Or(Or(Get, LitA), Put)
        /\ request.method = "POST"
        /\ Len(h.results) = 2
        /\ h.results[1].outcome = Forward(<<>>, MethodNotAllowed(AttemptedGET))
        /\ ctl.outcome = Forward(<<>>, MethodNotAllowed(5))



(***************************************************************************)
(* The whole RequestState under backtracking.                              *)
(***************************************************************************)
\* C34: the RequestState Or executes second with is the one first returned
\* with only the path cursor changed, to its value at Or's entry: the body
\* state (Pending, Finished or Error, with the chunks buffered) and the
\* pending upgrade are those the failed branch left, not those of Or's entry.
C34_BacktrackKeepsBody ==
    \A h \in Hists :
        (h.filter.op = "Or" /\ Len(h.calls) = 2) =>
            /\ h.results[1].outcome.tag = "Forward"
            /\ h.calls[2].request_state =
                    [h.results[1].request_state EXCEPT
                        !.current_path_index = h.request_state.current_path_index]
            /\ h.calls[2].request_state.body = h.results[1].request_state.body
            /\ h.calls[2].request_state.on_upgrade = h.results[1].request_state.on_upgrade

\* An Or has executed its second branch with the body its first branch read
\* to the end, and with the cursor back where the first branch found it.
C34_Witness ==
    \E h \in Hists :
        /\ h.filter = Or(And(And(LitA, TakeBody), End), And(TakeBody, LitB))
        /\ Len(h.calls) = 2
        /\ h.request_state.body = BodyPending(<<StreamPending, Data(<<98, 97>>)>>, <<>>, 0)
        /\ h.results[1].request_state.current_path_index = 2
        /\ h.calls[2].request_state.current_path_index = 0
        /\ h.calls[2].request_state.body = BodyFinished(<<<<98, 97>>>>, 2)
        /\ h.calls[2].request_state.on_upgrade = Some("upgrade")



(***************************************************************************)
(* The RequestState through the combinators that do not backtrack.         *)
(***************************************************************************)
\* The results of the child filters a future has run, in order.
ChildResults(h) ==
    SelectSeq(h.results, LAMBDA r : "request_state" \in DOMAIN r)

Passing == {"And", "Then", "Handle", "Receive", "Untuple", "RecoverForward"}

\* C35: And, Then, Handle, Receive, Untuple and RecoverForward return exactly
\* the RequestState the last child filter they ran handed back; so when And's
\* first succeeds after consuming path and second forwards, the Forward And
\* returns carries the cursor second left, not And's entry cursor.
C35_StatePassedOn ==
    \A h \in Hists :
        (Returns(h) /\ h.filter.op \in Passing) =>
            /\ ChildResults(h) # <<>>
            /\ ctl.request_state = ChildResults(h)[Len(ChildResults(h))].request_state
            /\ (h.filter.op = "And" /\ Len(h.results) = 2 /\ ctl.outcome.tag = "Forward") =>
                    Cursor(ctl.request_state) = Cursor(h.results[2].request_state)

\* literal("a").and(body::all()).and(end()) has forwarded on "/a/a" with the
\* cursor behind the literal and the body read.
C35_Witness ==
    \E h \in Hists :
        /\ Returns(h)
        /\ h.filter = And(And(LitA, TakeBody), End)
        /\ Cursor(h.request_state) = 0
        /\ h.results[1].outcome.tag = "Success"
        /\ ctl.outcome.tag = "Forward"
        /\ Cursor(ctl.request_state) = 2
        /\ ctl.request_state.body.tag = "Finished"



(***************************************************************************)
(* The path cursor.                                                        *)
(***************************************************************************)
\* Every RequestState in sight: the one in transit, those futures keep while
\* they wait, and those the histories recorded.
StatesInSight ==
    (IF InTransit THEN {ctl.request_state} ELSE {})
      \cup {stack[i].request_state.value : i \in Stashes}
      \cup UNION {{h.request_state}
                    \cup {h.calls[i].request_state : i \in 1..Len(h.calls)}
                    \cup {h.results[i].request_state :
                            i \in {j \in 1..Len(h.results) :
                                        "request_state" \in DOMAIN h.results[j]}} :
                  h \in Hists}

AtBoundary(index, path) ==
    /\ 0 <= index /\ index <= Len(path)
    /\ index = 0 \/ index = Len(path) \/ path[index + 1] = SLASH

\* C36: in every state of every composition of literal, param_str, param,
\* end, tail, tail_path, And, Or, Then, Handle and Recover, on every path,
\* the cursor is between 0 and the length of the path and stands at offset 0,
\* at the end of the path or at a '/', never inside a segment.
C36_CursorAtBoundary ==
    \A request_state \in StatesInSight : AtBoundary(Cursor(request_state), request.path)

\* The cursor stands at the second '/' of "/a/1" after a param_str, before
\* the end of the path.
C36_Witness ==
    /\ request.path = <<SLASH, 97, SLASH, 49>>
    /\ ctl.kind = "ready"
    /\ ctl.by.filter = ParamStr
    /\ ctl.outcome.tag = "Success"
    /\ Cursor(ctl.request_state) = 2



(***************************************************************************)
(* What follows a tail.                                                    *)
(***************************************************************************)
TailSteps == {TailF, TailPath}

\* The filter is a tail step, or a chain whose last step is one.
EndsInTail(f) == f \in TailSteps \/ (f.op = "And" /\ f.second \in TailSteps)

\* The histories of the pairs whose first half ended in a tail that
\* succeeded and whose second half has answered.
AfterTail ==
    {h \in Hists : /\ h.filter.op = "And"
                   /\ EndsInTail(h.filter.first)
                   /\ Len(h.results) = 2
                   /\ h.results[1].outcome.tag = "Success"}

\* C37: tail() always returns Success with all that remains of the path and
\* the cursor at the end of the path, and tail_path, when it accepts, also
\* leaves the cursor at the end; a following end() returns Success, a
\* following literal or param_str returns Forward(NotFound).
C37_TailConsumes ==
    /\ \A h \in Hists :
          /\ (Returns(h) /\ h.filter = TailF) =>
                /\ ctl.outcome.tag = "Success"
                /\ ctl.outcome.success = <<Str(current_path(h.request_state, request))>>
                /\ Cursor(ctl.request_state) = Len(full_path(request))
          /\ (Returns(h) /\ h.filter = TailPath /\ ctl.outcome.tag = "Success") =>
                Cursor(ctl.request_state) = Len(full_path(request))
    /\ \A h \in AfterTail :
          /\ Cursor(h.results[1].request_state) = Len(full_path(request))
          /\ h.filter.second = End => h.results[2].outcome.tag = "Success"
          /\ h.filter.second \in {LitA, ParamStr} =>
                /\ h.results[2].outcome.tag = "Forward"
                /\ h.results[2].outcome.forwarding = NotFound

\* On "/a/1" literal("a").and(tail()) has taken "/1", and the literal
\* after it has forwarded.
C37_Witness ==
    \E h \in AfterTail :
        /\ Returns(h)
        /\ request.path = <<SLASH, 97, SLASH, 49>>
        /\ h.filter = And(And(LitA, TailF), LitA)
        /\ h.results[1].outcome.success = <<Str(<<SLASH, 49>>)>>
        /\ Cursor(h.results[1].request_state) = 4
        /\ ctl.outcome.tag = "Forward"



(***************************************************************************)
(* The progress of the body read.                                          *)
(***************************************************************************)
\* The body field of the one RequestState of the evaluation.
BodyNow ==
    IF InTransit THEN ctl.request_state.body
    ELSE stack[CHOOSE i \in Stashes : TRUE].request_state.value.body

\* The chunks poll_body stores of the answers of a stream.
Stored(stream) ==
    LET kept == SelectSeq(stream, LAMBDA item : item.tag = "Data" /\ item.buf # <<>>)
    IN [i \in 1..Len(kept) |-> kept[i].buf]

\* Pending moves to Pending, Finished or Error; Finished holds what Pending
\* had gathered and what the stream still gave; Finished and Error stay.
BodyStep ==
    /\ BodyNow.tag = "Pending" => BodyNow'.tag \in {"Pending", "Finished", "Error"}
    /\ (BodyNow.tag = "Pending" /\ BodyNow'.tag = "Finished") =>
            /\ BodyNow'.bytes = BodyNow.bytes \o Stored(BodyNow.stream)
            /\ BodyNow'.len = BodyNow.len + SumLen(Stored(BodyNow.stream))
    /\ BodyNow.tag \in {"Finished", "Error"} => BodyNow' = BodyNow

\* A body::all() that was entered with the stream ended returns its chunks
\* and length and the RequestState it was given; one entered with the
\* stream failed returns body::Error without an inner cause.
LaterExtractions ==
    \A h \in Hists :
        (Returns(h) /\ h.filter = TakeBody) =>
            /\ h.request_state.body.tag = "Finished" =>
                  /\ ctl.outcome.tag = "Success"
                  /\ ctl.outcome.success =
                        <<BytesBuf(h.request_state.body.bytes, h.request_state.body.len)>>
                  /\ ctl.request_state = h.request_state
            /\ h.request_state.body.tag = "Error" =>
                  /\ ctl.outcome.tag = "Error"
                  /\ ctl.outcome.error.type = "body::Error"
                  /\ ctl.outcome.error.data.inner = None
                  /\ ctl.request_state = h.request_state

ExtractionStarted == ctl.kind = "execute" /\ ctl.filter = TakeBody

ExtractionReturned == ctl.kind = "ready" /\ ctl.by.filter = TakeBody

\* C38: the body state moves Pending -> Finished | Error and then stays; after
\* the end of the stream every later body::all() of the request, also in
\* another branch of an Or, succeeds with the same chunks and length and
\* consumes nothing; after a failure every later one returns a body Error
\* without inner cause; and on a stream that ends or fails every body::all()
\* that was started returns.
C38_BodyProgress ==
    /\ [][BodyStep]_vars
    /\ []LaterExtractions
    /\ ExtractionStarted ~> ExtractionReturned

\* The second branch of an Or has read the body its first branch had read to
\* the end, and got the same two chunks.
C38_Witness ==
    \E h \in Hists :
        /\ Returns(h)
        /\ h.filter = TakeBody
        /\ h.request_state.body = BodyFinished(<<<<97>>, <<98, 97>>>>, 3)
        /\ Cursor(h.request_state) = 0
        /\ filter = Or(And(TakeBody, LitA), TakeBody)
        /\ ctl.outcome = Success(<<BytesBuf(<<<<97>>, <<98, 97>>>>, 3)>>)



(***************************************************************************)
(* The chunks of the body, from the stream to the reader.                  *)
(***************************************************************************)
\* The body states of the read in progress: the one the future keeps and
\* the one it has returned.
BodiesRead ==
    {stack[i].request_state.value.body : i \in Stashes}
      \cup (IF ctl.kind = "ready" THEN {ctl.request_state.body} ELSE {})

\* The stream the request came with.
Arriving ==
    IF stack # <<>> THEN stack[1].hist.request_state.body.stream
    ELSE ctl.by.request_state.body.stream

\* C39: while the body is read the stored chunks are those that arrived, in
\* the order of arrival, none of them empty, and the running length is the
\* sum of their lengths; and for the buffer body::all() returned, after any
\* reads and advances, the front chunk is empty exactly when nothing remains.
C39_ChunksAccumulate ==
    /\ \A body \in BodiesRead :
          body.tag \in {"Pending", "Finished"} =>
              /\ \A i \in 1..Len(body.bytes) : body.bytes[i] # <<>>
              /\ body.len = SumLen(body.bytes)
              /\ body.tag = "Pending" =>
                    body.bytes \o Stored(body.stream) = Stored(Arriving)
              /\ body.tag = "Finished" => body.bytes = Stored(Arriving)
    /\ (ctl.kind = "bytes_buf" /\ ~ctl.panicked) =>
          (chunk(ctl.reader) = <<>> <=> remaining(ctl.reader) = 0)

\* The stream gave "a" and "ba"; the reader has taken one byte with advance
\* and one with read, and "a" remains in front.
C39_Witness ==
    /\ ctl.kind = "bytes_buf"
    /\ ~ctl.panicked
    /\ ctl.original = <<<<97>>, <<98, 97>>>>
    /\ ctl.advanced = 1
    /\ ctl.out = <<98>>
    /\ chunk(ctl.reader) = <<97>>
    /\ remaining(ctl.reader) = 1

====
